---- MODULE Spec2Model ----
(***************************************************************************)
(* Stock ledger and point-of-sale transaction engine of sc4x:              *)
(* server/routes/dashboard.js (stock adjust, bulk-adjust, alerts),         *)
(* server/routes/sales.js (create sale, refund) and                        *)
(* server/routes/products.js (product create / update / delete).           *)
(* The tables of server/database/schema.sql are the state; one action per  *)
(* route handler.                                                          *)
(***************************************************************************)
EXTENDS Integers, Sequences, FiniteSets, TLC

VARIABLES products, stock, stock_movements, low_stock_alerts, sales,
          sale_items, resp, pre_stock, inflight, users, categories, req_user

vars == <<products, stock, stock_movements, low_stock_alerts, sales,
          sale_items, resp, pre_stock, inflight,
          users, categories, req_user>>

tables == <<stock, stock_movements, low_stock_alerts, sales, sale_items>>

\* the users and categories tables and req.user, which the stock, sale and
\* product handlers do not write
other_tables == <<users, categories, req_user>>

(***************************************************************************)
(* Bounds of the model.                                                    *)
(***************************************************************************)
MaxProducts == 2
MaxCreated == 1
MaxMinLevel == 1
MaxQuantity == 2
MaxStock == 3
MaxMovements == 3
MaxLines == 2
MaxBulk == 2
MaxSales == 1
MaxNotes == 1
MaxRequests == 2
MaxPrice == 2
MaxDiscount == 3
MaxTax == 1

(***************************************************************************)
(* Values.                                                                 *)
(***************************************************************************)
NULL == 0
NoType == "null"
NoTime == "null"
CURRENT_TIMESTAMP == "now"
Actor == 1
\* the two accounts the database is created with
SeedUsers == <<[role |-> "admin", is_active |-> TRUE],
               [role |-> "cashier", is_active |-> TRUE]>>
ProductIds == 1..MaxProducts
VariantIds == {NULL, 1}
MinLevels == 0..MaxMinLevel
AdjustmentTypes == {"in", "out", "adjustment"}
SaleNumbers == 1..(MaxSales + 1)
RequestIds == 1..MaxRequests
Max(a, b) == IF a >= b THEN a ELSE b

(***************************************************************************)
(* The tables as one value, and the transaction helpers of                 *)
(* config/database.js (beginTransaction / commit / rollback).              *)
(***************************************************************************)
Db == [stock |-> stock, stock_movements |-> stock_movements,
       low_stock_alerts |-> low_stock_alerts, sales |-> sales,
       sale_items |-> sale_items]

commit(snapshot, working) == working

rollback(snapshot, working) == snapshot

(***************************************************************************)
(* Lookups.                                                                *)
(***************************************************************************)
\* SELECT * FROM products WHERE id = ? AND is_active = 1
ActiveProduct(p) == p \in DOMAIN products /\ products[p].is_active

\* SELECT * FROM stock WHERE product_id = ? AND variant_id IS ?
StockRows(d, p, v) ==
  {i \in DOMAIN d.stock : d.stock[i].product_id = p /\ d.stock[i].variant_id = v}

HasStock(d, p, v) == StockRows(d, p, v) # {}

StockQuantity(d, p, v) ==
  d.stock[CHOOSE i \in StockRows(d, p, v) : \A j \in StockRows(d, p, v) : i <= j].quantity

\* SELECT id FROM low_stock_alerts WHERE product_id = ? AND variant_id IS ?
\*   AND alert_status = "active"
existingAlert(d, p, v) ==
  \E i \in DOMAIN d.low_stock_alerts :
     /\ d.low_stock_alerts[i].product_id = p
     /\ d.low_stock_alerts[i].variant_id = v
     /\ d.low_stock_alerts[i].alert_status = "active"

(***************************************************************************)
(* Writes.                                                                 *)
(***************************************************************************)
\* UPDATE stock SET quantity = ? WHERE product_id = ? AND variant_id IS ?
UpdateStock(d, p, v, q) ==
  [d EXCEPT !.stock =
     [i \in DOMAIN d.stock |->
        IF d.stock[i].product_id = p /\ d.stock[i].variant_id = v
        THEN [d.stock[i] EXCEPT !.quantity = q]
        ELSE d.stock[i]]]

\* the write keeping one row per stock line: the line's latest movement is
\* replaced
InsertMovement_KeepLatest(d, p, v, type, change, before, after, refId, refType) ==
  LET row == [product_id |-> p, variant_id |-> v, movement_type |-> type,
              quantity_change |-> change, quantity_before |-> before,
              quantity_after |-> after, reference_id |-> refId,
              reference_type |-> refType]
      own == {i \in DOMAIN d.stock_movements :
                /\ d.stock_movements[i].product_id = p
                /\ d.stock_movements[i].variant_id = v}
  IN IF own = {}
     THEN [d EXCEPT !.stock_movements = Append(@, row)]
     ELSE [d EXCEPT !.stock_movements[CHOOSE i \in own :
                                        \A j \in own : j <= i] = row]

\* INSERT INTO stock_movements (...)
InsertMovement(d, p, v, type, change, before, after, refId, refType) ==
  [d EXCEPT !.stock_movements = Append(@,
     [product_id |-> p, variant_id |-> v, movement_type |-> type,
      quantity_change |-> change, quantity_before |-> before,
      quantity_after |-> after, reference_id |-> refId,
      reference_type |-> refType])]

\* INSERT INTO low_stock_alerts (product_id, variant_id, current_stock, min_stock_level)
InsertAlert(d, p, v, q, min) ==
  [d EXCEPT !.low_stock_alerts = Append(@,
     [product_id |-> p, variant_id |-> v, current_stock |-> q,
      min_stock_level |-> min, alert_status |-> "active",
      acknowledged_by |-> NULL, acknowledged_at |-> NoTime])]

\* the update without the condition alert_status = "active"
ResolveAlerts_AnyStatus(d, p, v) ==
  [d EXCEPT !.low_stock_alerts =
     [i \in DOMAIN d.low_stock_alerts |->
        IF /\ d.low_stock_alerts[i].product_id = p
           /\ d.low_stock_alerts[i].variant_id = v
        THEN [d.low_stock_alerts[i] EXCEPT !.alert_status = "resolved"]
        ELSE d.low_stock_alerts[i]]]

\* the update without the condition on product_id and variant_id
ResolveAlerts_EveryLine(d, p, v) ==
  [d EXCEPT !.low_stock_alerts =
     [i \in DOMAIN d.low_stock_alerts |->
        IF d.low_stock_alerts[i].alert_status = "active"
        THEN [d.low_stock_alerts[i] EXCEPT !.alert_status = "resolved"]
        ELSE d.low_stock_alerts[i]]]

\* UPDATE low_stock_alerts SET alert_status = "resolved" WHERE ... "active"
ResolveAlerts(d, p, v) ==
  [d EXCEPT !.low_stock_alerts =
     [i \in DOMAIN d.low_stock_alerts |->
        IF /\ d.low_stock_alerts[i].product_id = p
           /\ d.low_stock_alerts[i].variant_id = v
           /\ d.low_stock_alerts[i].alert_status = "active"
        THEN [d.low_stock_alerts[i] EXCEPT !.alert_status = "resolved"]
        ELSE d.low_stock_alerts[i]]]

\* the alert block without the lookup of an active alert
AdjustAlerts_NoLookup(d, p, v, newQuantity, min) ==
  IF newQuantity <= min
  THEN InsertAlert(d, p, v, newQuantity, min)
  ELSE ResolveAlerts(d, p, v)

\* the alert block comparing with < instead of <=
AdjustAlerts_StrictlyBelow(d, p, v, newQuantity, min) ==
  IF newQuantity < min
  THEN IF existingAlert(d, p, v) THEN d ELSE InsertAlert(d, p, v, newQuantity, min)
  ELSE ResolveAlerts(d, p, v)

\* the alert block refreshing the active alert's current_stock
AdjustAlerts_RefreshSnapshot(d, p, v, newQuantity, min) ==
  IF newQuantity <= min
  THEN IF existingAlert(d, p, v)
       THEN [d EXCEPT !.low_stock_alerts =
               [i \in DOMAIN d.low_stock_alerts |->
                  IF /\ d.low_stock_alerts[i].product_id = p
                     /\ d.low_stock_alerts[i].variant_id = v
                     /\ d.low_stock_alerts[i].alert_status = "active"
                  THEN [d.low_stock_alerts[i] EXCEPT !.current_stock = newQuantity]
                  ELSE d.low_stock_alerts[i]]]
       ELSE InsertAlert(d, p, v, newQuantity, min)
  ELSE ResolveAlerts(d, p, v)

\* the alert block replacing the active alert by a new one at every breach
AdjustAlerts_Recreate(d, p, v, newQuantity, min) ==
  IF newQuantity <= min
  THEN InsertAlert(ResolveAlerts(d, p, v), p, v, newQuantity, min)
  ELSE ResolveAlerts(d, p, v)

\* the alert block of POST /adjust and POST /bulk-adjust
AdjustAlerts(d, p, v, newQuantity, min) ==
  IF newQuantity <= min
  THEN IF existingAlert(d, p, v) THEN d ELSE InsertAlert(d, p, v, newQuantity, min)
  ELSE ResolveAlerts(d, p, v)

\* the alert block of POST /sales: creates, never resolves
SaleAlerts(d, p, v, newQuantity, min) ==
  IF newQuantity <= min /\ ~existingAlert(d, p, v)
  THEN InsertAlert(d, p, v, newQuantity, min)
  ELSE d

(***************************************************************************)
(* Quantity computation of POST /adjust and POST /bulk-adjust.             *)
(***************************************************************************)
\* the computation without Math.max(0, ...)
NewQuantity_NoClamp(type, currentQuantity, quantity) ==
  CASE type = "in" -> currentQuantity + quantity
    [] type = "out" -> currentQuantity - quantity
    [] type = "adjustment" -> quantity

NewQuantity(type, currentQuantity, quantity) ==
  CASE type = "in" -> currentQuantity + quantity
    [] type = "out" -> Max(0, currentQuantity - quantity)
    [] type = "adjustment" -> quantity

\* the statements of one adjustment, in order, up to the one that throws
AdjustFaults == {"none", "stock", "movement", "alert", "commit", "response"}

\* the writes with the requested delta recorded instead of the applied one
AdjustWrites_RequestedDelta(d, p, v, type, quantity, currentQuantity, min, fault) ==
  LET newQuantity == NewQuantity(type, currentQuantity, quantity)
      quantityChange == IF type = "out" THEN -quantity
                        ELSE newQuantity - currentQuantity
      d1 == UpdateStock(d, p, v, newQuantity)
      d2 == InsertMovement(d1, p, v, type, quantityChange, currentQuantity,
                           newQuantity, NULL, NoType)
      d3 == AdjustAlerts(d2, p, v, newQuantity, min)
  IN CASE fault = "stock" -> d
       [] fault = "movement" -> d1
       [] fault = "alert" -> d2
       [] OTHER -> d3

AdjustWrites(d, p, v, type, quantity, currentQuantity, min, fault) ==
  LET newQuantity == NewQuantity(type, currentQuantity, quantity)
      quantityChange == newQuantity - currentQuantity
      d1 == UpdateStock(d, p, v, newQuantity)
      d2 == InsertMovement(d1, p, v, type, quantityChange, currentQuantity,
                           newQuantity, NULL, NoType)
      d3 == AdjustAlerts(d2, p, v, newQuantity, min)
  IN CASE fault = "stock" -> d
       [] fault = "movement" -> d1
       [] fault = "alert" -> d2
       [] OTHER -> d3

(***************************************************************************)
(* Responses. Every response has the same fields; data depends on op.      *)
(***************************************************************************)
Response(op, status, error, ref, data) ==
  [op |-> op, status |-> status, error |-> error, ref |-> ref, data |-> data]

NoData == <<>>

SetTables(d) ==
  /\ stock' = d.stock
  /\ stock_movements' = d.stock_movements
  /\ low_stock_alerts' = d.low_stock_alerts
  /\ sales' = d.sales
  /\ sale_items' = d.sale_items

(***************************************************************************)
(* POST /products, PUT /products/:id, DELETE /products/:id                 *)
(***************************************************************************)
\* the statements of the creation, in order, up to the one that throws
ProductFaults == {"none", "product", "stock", "commit", "response"}

\* the creation without the rollback in its catch block
CreateProduct_NoRollback(min, fault) ==
  /\ products' = IF fault = "product" THEN products
                 ELSE Append(products, [is_active |-> TRUE,
                                        min_stock_level |-> min])
  /\ stock' = IF fault \in {"product", "stock"} THEN stock
              ELSE Append(stock, [product_id |-> Len(products) + 1,
                                  variant_id |-> NULL, quantity |-> 0])
  /\ resp' = IF fault = "none"
             THEN Response("createProduct", 201, "", Len(products) + 1, NoData)
             ELSE Response("createProduct", 500, "Internal", NULL, NoData)
  /\ UNCHANGED <<stock_movements, low_stock_alerts, sales, sale_items,
                 pre_stock, inflight>>

\* the product row and its stock row are written in one transaction, rolled
\* back when a statement or the commit throws
CreateProduct(min, fault) ==
  /\ products' = IF fault \in {"product", "stock", "commit"} THEN products
                 ELSE Append(products, [is_active |-> TRUE,
                                        min_stock_level |-> min])
  /\ stock' = IF fault \in {"product", "stock", "commit"} THEN stock
              ELSE Append(stock, [product_id |-> Len(products) + 1,
                                  variant_id |-> NULL, quantity |-> 0])
  /\ resp' = IF fault = "none"
             THEN Response("createProduct", 201, "", Len(products) + 1, NoData)
             ELSE Response("createProduct", 500, "Internal", NULL, NoData)
  /\ UNCHANGED <<stock_movements, low_stock_alerts, sales, sale_items,
                 pre_stock, inflight>>

UpdateProduct(id, min) ==
  /\ IF ActiveProduct(id)
     THEN /\ products' = [products EXCEPT ![id].min_stock_level = min]
          /\ resp' = Response("updateProduct", 200, "", id, NoData)
     ELSE /\ UNCHANGED products
          /\ resp' = Response("updateProduct", 404, "NotFound", id, NoData)
  /\ UNCHANGED <<tables, pre_stock, inflight>>

DeleteProduct(id) ==
  /\ IF ~ActiveProduct(id)
     THEN /\ UNCHANGED products
          /\ resp' = Response("deleteProduct", 404, "NotFound", id, NoData)
     ELSE IF \E i \in DOMAIN sale_items : sale_items[i].product_id = id
     THEN /\ UNCHANGED products
          /\ resp' = Response("deleteProduct", 400, "InvalidRequest", id, NoData)
     ELSE /\ products' = [products EXCEPT ![id].is_active = FALSE]
          /\ resp' = Response("deleteProduct", 200, "", id, NoData)
  /\ UNCHANGED <<tables, pre_stock, inflight>>

(***************************************************************************)
(* POST /stock/adjust                                                      *)
(***************************************************************************)
\* body('quantity').isInt({ min: 1 }) answers 400 before the handler's lookups
\* what the request asked, kept with the answers that carry no adjustment
AdjustRequest(v, type, quantity) ==
  [variant_id |-> v, type |-> type, quantity |-> quantity]

AdjustData(type, quantity, currentQuantity) ==
  [type |-> type, quantity |-> quantity,
   quantity_change |-> NewQuantity(type, currentQuantity, quantity) - currentQuantity,
   previous_quantity |-> currentQuantity,
   new_quantity |-> NewQuantity(type, currentQuantity, quantity)]

\* the transaction without the rollback in its catch block
AdjustTransaction_NoRollback(p, v, type, quantity, currentQuantity, min, fault) ==
  LET working == AdjustWrites(Db, p, v, type, quantity, currentQuantity, min, fault)
  IN /\ SetTables(commit(Db, working))
     /\ resp' = IF fault = "none"
                THEN Response("adjust", 200, "", p,
                              AdjustData(type, quantity, currentQuantity))
                ELSE Response("adjust", 500, "Internal", p,
                              AdjustRequest(v, type, quantity))

\* the transaction of POST /adjust, from the quantity read before it
AdjustTransaction(p, v, type, quantity, currentQuantity, min, fault) ==
  LET working == AdjustWrites(Db, p, v, type, quantity, currentQuantity, min, fault)
  IN IF fault \in {"stock", "movement", "alert", "commit"}
     THEN /\ SetTables(rollback(Db, working))
          /\ resp' = Response("adjust", 500, "Internal", p,
                                         AdjustRequest(v, type, quantity))
     ELSE /\ SetTables(commit(Db, working))
          /\ resp' = IF fault = "response"
                     THEN Response("adjust", 500, "Internal", p,
                                              AdjustRequest(v, type, quantity))
                     ELSE Response("adjust", 200, "", p,
                                   AdjustData(type, quantity, currentQuantity))

\* the handler refusing an out adjustment larger than the quantity held
Adjust_RejectShort(p, v, type, quantity, fault) ==
  /\ IF quantity < 1
     THEN /\ UNCHANGED tables
          /\ resp' = Response("adjust", 400, "InvalidRequest", p,
                              AdjustRequest(v, type, quantity))
     ELSE IF ~ActiveProduct(p)
     THEN /\ UNCHANGED tables
          /\ resp' = Response("adjust", 404, "ProductNotFound", p,
                              AdjustRequest(v, type, quantity))
     ELSE IF ~HasStock(Db, p, v)
     THEN /\ UNCHANGED tables
          /\ resp' = Response("adjust", 404, "StockNotFound", p,
                              AdjustRequest(v, type, quantity))
     ELSE IF type = "out" /\ StockQuantity(Db, p, v) < quantity
     THEN /\ UNCHANGED tables
          /\ resp' = Response("adjust", 400, "InsufficientStock", p,
                              AdjustRequest(v, type, quantity))
     ELSE AdjustTransaction(p, v, type, quantity, StockQuantity(Db, p, v),
                               products[p].min_stock_level, fault)
  /\ UNCHANGED <<products, pre_stock, inflight>>

Adjust(p, v, type, quantity, fault) ==
  /\ IF quantity < 1
     THEN /\ UNCHANGED tables
          /\ resp' = Response("adjust", 400, "InvalidRequest", p,
                                               AdjustRequest(v, type, quantity))
     ELSE IF ~ActiveProduct(p)
     THEN /\ UNCHANGED tables
          /\ resp' = Response("adjust", 404, "ProductNotFound", p,
                                                AdjustRequest(v, type, quantity))
     ELSE IF ~HasStock(Db, p, v)
     THEN /\ UNCHANGED tables
          /\ resp' = Response("adjust", 404, "StockNotFound", p,
                                              AdjustRequest(v, type, quantity))
     ELSE AdjustTransaction(p, v, type, quantity, StockQuantity(Db, p, v),
                               products[p].min_stock_level, fault)
  /\ UNCHANGED <<products, pre_stock, inflight>>

\* The same handler as the event loop runs it: the lookups before
\* beginTransaction are one step, the transaction is a later step, and another
\* request may run between the two.
Idle == [pc |-> "idle"]

AdjustLookup(r, p, v, type, quantity) ==
  /\ inflight[r].pc = "idle"
  /\ IF quantity < 1
     THEN /\ resp' = Response("adjust", 400, "InvalidRequest", p,
                                               AdjustRequest(v, type, quantity))
          /\ UNCHANGED inflight
     ELSE IF ~ActiveProduct(p)
     THEN /\ resp' = Response("adjust", 404, "ProductNotFound", p,
                                                AdjustRequest(v, type, quantity))
          /\ UNCHANGED inflight
     ELSE IF ~HasStock(Db, p, v)
     THEN /\ resp' = Response("adjust", 404, "StockNotFound", p,
                                              AdjustRequest(v, type, quantity))
          /\ UNCHANGED inflight
     ELSE /\ inflight' = [inflight EXCEPT ![r] =
               [pc |-> "transaction", product_id |-> p, variant_id |-> v,
                adjustment_type |-> type, quantity |-> quantity,
                currentQuantity |-> StockQuantity(Db, p, v),
                min_stock_level |-> products[p].min_stock_level]]
          /\ UNCHANGED resp
  /\ UNCHANGED <<products, tables, pre_stock>>

AdjustCommit(r, fault) ==
  /\ inflight[r].pc = "transaction"
  /\ AdjustTransaction(inflight[r].product_id, inflight[r].variant_id,
                       inflight[r].adjustment_type, inflight[r].quantity,
                       inflight[r].currentQuantity, inflight[r].min_stock_level,
                       fault)
  /\ inflight' = [inflight EXCEPT ![r] = Idle]
  /\ UNCHANGED <<products, pre_stock>>

(***************************************************************************)
(* POST /stock/bulk-adjust                                                 *)
(***************************************************************************)
BulkFaults == {"none", "stock", "movement", "alert"}

\* one item computed from the quantity the line held before the batch
BulkItem_BatchSnapshot(d, item, fault) ==
  LET p == item.product_id
      v == item.variant_id
  IN IF ~ActiveProduct(p)
     THEN [db |-> d, ok |-> FALSE,
           entry |-> [product_id |-> p, error |-> "ProductNotFound"]]
     ELSE IF ~HasStock(d, p, v)
     THEN [db |-> d, ok |-> FALSE,
           entry |-> [product_id |-> p, error |-> "StockNotFound"]]
     ELSE LET currentQuantity == StockQuantity(Db, p, v)
              newQuantity == NewQuantity(item.adjustment_type, currentQuantity,
                                         item.quantity)
          IN [db |-> AdjustWrites(d, p, v, item.adjustment_type, item.quantity,
                                  currentQuantity, products[p].min_stock_level,
                                  fault),
              ok |-> fault = "none",
              entry |-> IF fault = "none"
                        THEN [product_id |-> p,
                              adjustment_type |-> item.adjustment_type,
                              quantity |-> item.quantity,
                              quantity_change |-> newQuantity - currentQuantity,
                              previous_quantity |-> currentQuantity,
                              new_quantity |-> newQuantity]
                        ELSE [product_id |-> p, error |-> "Internal"]]

\* one item without the alert block
BulkItem_NoAlerts(d, item, fault) ==
  LET p == item.product_id
      v == item.variant_id
  IN IF ~ActiveProduct(p)
     THEN [db |-> d, ok |-> FALSE,
           entry |-> [product_id |-> p, error |-> "ProductNotFound"]]
     ELSE IF ~HasStock(d, p, v)
     THEN [db |-> d, ok |-> FALSE,
           entry |-> [product_id |-> p, error |-> "StockNotFound"]]
     ELSE LET currentQuantity == StockQuantity(d, p, v)
              newQuantity == NewQuantity(item.adjustment_type, currentQuantity,
                                         item.quantity)
          IN [db |-> AdjustWrites(d, p, v, item.adjustment_type, item.quantity,
                                  currentQuantity, products[p].min_stock_level,
                                  IF fault = "none" THEN "alert" ELSE fault),
              ok |-> fault = "none",
              entry |-> IF fault = "none"
                        THEN [product_id |-> p,
                              adjustment_type |-> item.adjustment_type,
                              quantity |-> item.quantity,
                              quantity_change |-> newQuantity - currentQuantity,
                              previous_quantity |-> currentQuantity,
                              new_quantity |-> newQuantity]
                        ELSE [product_id |-> p, error |-> "Internal"]]

\* one item of the loop: the item's entry in results / failed and the tables
BulkItem(d, item, fault) ==
  LET p == item.product_id
      v == item.variant_id
  IN IF ~ActiveProduct(p)
     THEN [db |-> d, ok |-> FALSE,
           entry |-> [product_id |-> p, error |-> "ProductNotFound"]]
     ELSE IF ~HasStock(d, p, v)
     THEN [db |-> d, ok |-> FALSE,
           entry |-> [product_id |-> p, error |-> "StockNotFound"]]
     ELSE LET currentQuantity == StockQuantity(d, p, v)
              newQuantity == NewQuantity(item.adjustment_type, currentQuantity,
                                         item.quantity)
          IN [db |-> AdjustWrites(d, p, v, item.adjustment_type, item.quantity,
                                  currentQuantity, products[p].min_stock_level,
                                  fault),
              ok |-> fault = "none",
              entry |-> IF fault = "none"
                        THEN [product_id |-> p,
                              adjustment_type |-> item.adjustment_type,
                              quantity |-> item.quantity,
                              quantity_change |-> newQuantity - currentQuantity,
                              previous_quantity |-> currentQuantity,
                              new_quantity |-> newQuantity]
                        ELSE [product_id |-> p, error |-> "Internal"]]

\* the loop leaving at the first item that fails
RECURSIVE BulkLoop_StopAtFailure(_, _, _, _, _, _)
BulkLoop_StopAtFailure(d, adjustments, faults, i, results, failed) ==
  IF i > Len(adjustments)
  THEN [db |-> d, successful |-> results, failed |-> failed]
  ELSE LET r == BulkItem(d, adjustments[i], faults[i])
       IN IF r.ok
          THEN BulkLoop_StopAtFailure(r.db, adjustments, faults, i + 1,
                                      Append(results, r.entry), failed)
          ELSE [db |-> r.db, successful |-> results,
                failed |-> Append(failed, r.entry)]

\* the loop going on to the next item without failed.push when a lookup finds
\* no row
RECURSIVE BulkLoop_UnlistedLookupFailure(_, _, _, _, _, _)
BulkLoop_UnlistedLookupFailure(d, adjustments, faults, i, results, failed) ==
  IF i > Len(adjustments)
  THEN [db |-> d, successful |-> results, failed |-> failed]
  ELSE LET r == BulkItem(d, adjustments[i], faults[i])
       IN BulkLoop_UnlistedLookupFailure(r.db, adjustments, faults, i + 1,
            IF r.ok THEN Append(results, r.entry) ELSE results,
            IF r.ok \/ r.entry.error \in {"ProductNotFound", "StockNotFound"}
            THEN failed ELSE Append(failed, r.entry))

\* the loop over adjustments; faults[i] is the statement of item i that throws
RECURSIVE BulkLoop(_, _, _, _, _, _)
BulkLoop(d, adjustments, faults, i, results, failed) ==
  IF i > Len(adjustments)
  THEN [db |-> d, successful |-> results, failed |-> failed]
  ELSE LET r == BulkItem(d, adjustments[i], faults[i])
       IN BulkLoop(r.db, adjustments, faults, i + 1,
                   IF r.ok THEN Append(results, r.entry) ELSE results,
                   IF r.ok THEN failed ELSE Append(failed, r.entry))

BulkAdjust(adjustments, faults, commitFault) ==
  LET r == BulkLoop(Db, adjustments, faults, 1, <<>>, <<>>)
  IN /\ IF commitFault
        THEN /\ SetTables(rollback(Db, r.db))
             /\ resp' = Response("bulkAdjust", 500, "Internal", NULL, NoData)
        ELSE /\ SetTables(commit(Db, r.db))
             /\ resp' = Response("bulkAdjust", 200, "", NULL,
                           [successful |-> r.successful, failed |-> r.failed,
                            total |-> Len(adjustments),
                            adjustments |-> adjustments])
     /\ UNCHANGED <<products, pre_stock, inflight>>

(***************************************************************************)
(* POST /sales                                                             *)
(***************************************************************************)
SaleFaults == {"none", "header", "item", "stock", "movement", "alert",
               "commit", "response"}

\* the validation loop without the comparison of stock.quantity to the line
RECURSIVE ValidateItems_NoQuantityCheck(_, _, _, _)
ValidateItems_NoQuantityCheck(d, items, i, validatedItems) ==
  IF i > Len(items)
  THEN [ok |-> TRUE, error |-> "", line |-> 0, validatedItems |-> validatedItems]
  ELSE LET p == items[i].product_id
           v == items[i].variant_id
       IN IF ~ActiveProduct(p)
          THEN [ok |-> FALSE, error |-> "ProductNotFound", line |-> i,
                validatedItems |-> validatedItems]
          ELSE IF ~HasStock(d, p, v)
          THEN [ok |-> FALSE, error |-> "InsufficientStock", line |-> i,
                validatedItems |-> validatedItems]
          ELSE ValidateItems_NoQuantityCheck(d, items, i + 1, Append(validatedItems,
                 [product_id |-> p, variant_id |-> v,
                  quantity |-> items[i].quantity,
                  unit_price |-> items[i].unit_price,
                  total_price |-> items[i].quantity * items[i].unit_price,
                  min_stock_level |-> products[p].min_stock_level,
                  current_stock |-> StockQuantity(d, p, v)]))

\* the validation loop: the first failing line, or the validated items
RECURSIVE ValidateItems(_, _, _, _)
ValidateItems(d, items, i, validatedItems) ==
  IF i > Len(items)
  THEN [ok |-> TRUE, error |-> "", line |-> 0, validatedItems |-> validatedItems]
  ELSE LET p == items[i].product_id
           v == items[i].variant_id
       IN IF ~ActiveProduct(p)
          THEN [ok |-> FALSE, error |-> "ProductNotFound", line |-> i,
                validatedItems |-> validatedItems]
          ELSE IF ~HasStock(d, p, v) \/ StockQuantity(d, p, v) < items[i].quantity
          THEN [ok |-> FALSE, error |-> "InsufficientStock", line |-> i,
                validatedItems |-> validatedItems]
          ELSE ValidateItems(d, items, i + 1, Append(validatedItems,
                 [product_id |-> p, variant_id |-> v,
                  quantity |-> items[i].quantity,
                  unit_price |-> items[i].unit_price,
                  total_price |-> items[i].quantity * items[i].unit_price,
                  min_stock_level |-> products[p].min_stock_level,
                  current_stock |-> StockQuantity(d, p, v)]))

\* the insert without the UNIQUE constraint on sale_number
SaleNumberTaken_NoConstraint(d, saleNumber) == FALSE

\* INSERT INTO sales (...); sale_number is UNIQUE
SaleNumberTaken(d, saleNumber) ==
  \E i \in DOMAIN d.sales : d.sales[i].sale_number = saleNumber

\* subtotal += totalPrice, over the validated items
RECURSIVE Subtotal(_)
Subtotal(validatedItems) ==
  IF validatedItems = <<>> THEN 0
  ELSE Head(validatedItems).total_price + Subtotal(Tail(validatedItems))

\* the total kept at zero or above
TotalAmount_Clamped(subtotal, discount_amount, tax_amount) ==
  Max(0, subtotal - discount_amount + tax_amount)

\* const totalAmount = subtotal - discount_amount + tax_amount
TotalAmount(subtotal, discount_amount, tax_amount) ==
  subtotal - discount_amount + tax_amount

\* the insert with the status given as pending
InsertSale_Pending(d, saleNumber, totalAmount, tax_amount, discount_amount) ==
  [d EXCEPT !.sales = Append(@, [sale_number |-> saleNumber,
                                 total_amount |-> totalAmount,
                                 tax_amount |-> tax_amount,
                                 discount_amount |-> discount_amount,
                                 status |-> "pending", notes |-> 0])]

\* INSERT INTO sales (...) gives no status: the column default is completed
InsertSale(d, saleNumber, totalAmount, tax_amount, discount_amount) ==
  [d EXCEPT !.sales = Append(@, [sale_number |-> saleNumber,
                                 total_amount |-> totalAmount,
                                 tax_amount |-> tax_amount,
                                 discount_amount |-> discount_amount,
                                 status |-> "completed", notes |-> 0])]

\* INSERT INTO sale_items (...)
InsertSaleItem(d, saleId, item) ==
  [d EXCEPT !.sale_items = Append(@, [sale_id |-> saleId,
       product_id |-> item.product_id, variant_id |-> item.variant_id,
       quantity |-> item.quantity, unit_price |-> item.unit_price,
       total_price |-> item.total_price])]

\* the statements for one validated item, up to the one that throws
SaleItemWrites(d, saleId, item, fault) ==
  LET newQuantity == item.current_stock - item.quantity
      d1 == InsertSaleItem(d, saleId, item)
      d2 == UpdateStock(d1, item.product_id, item.variant_id, newQuantity)
      d3 == InsertMovement(d2, item.product_id, item.variant_id, "sale",
                           -item.quantity, item.current_stock, newQuantity,
                           saleId, "sale")
      d4 == SaleAlerts(d3, item.product_id, item.variant_id, newQuantity,
                       item.min_stock_level)
  IN CASE fault = "item" -> [db |-> d, thrown |-> TRUE]
       [] fault = "stock" -> [db |-> d1, thrown |-> TRUE]
       [] fault = "movement" -> [db |-> d2, thrown |-> TRUE]
       [] fault = "alert" /\ newQuantity <= item.min_stock_level ->
            [db |-> d3, thrown |-> TRUE]
       [] OTHER -> [db |-> d4, thrown |-> FALSE]

RECURSIVE SaleItemsLoop(_, _, _, _, _)
SaleItemsLoop(d, saleId, validatedItems, i, fault) ==
  IF i > Len(validatedItems)
  THEN [db |-> d, thrown |-> FALSE]
  ELSE LET r == SaleItemWrites(d, saleId, validatedItems[i], fault)
       IN IF r.thrown THEN r
          ELSE SaleItemsLoop(r.db, saleId, validatedItems, i + 1, fault)

\* everything between beginTransaction and commit
SaleWrites(d, items, saleNumber, discount_amount, tax_amount, fault) ==
  LET val == ValidateItems(d, items, 1, <<>>)
  IN IF ~val.ok
     THEN [db |-> d, thrown |-> TRUE, error |-> val.error, line |-> val.line,
           saleId |-> NULL]
     ELSE IF fault = "header" \/ SaleNumberTaken(d, saleNumber)
     THEN [db |-> d, thrown |-> TRUE, error |-> "Internal", line |-> 0,
           saleId |-> NULL]
     ELSE LET saleId == Len(d.sales) + 1
              totalAmount == TotalAmount(Subtotal(val.validatedItems),
                                         discount_amount, tax_amount)
              r == SaleItemsLoop(InsertSale(d, saleNumber, totalAmount,
                                            tax_amount, discount_amount),
                                 saleId, val.validatedItems, 1, fault)
          IN [db |-> r.db, thrown |-> r.thrown,
              error |-> IF r.thrown THEN "Internal" ELSE "", line |-> 0,
              saleId |-> saleId]

CreateSale(items, saleNumber, discount_amount, tax_amount, fault) ==
  LET w == SaleWrites(Db, items, saleNumber, discount_amount, tax_amount, fault)
  IN /\ IF w.thrown \/ fault = "commit"
        THEN /\ SetTables(rollback(Db, w.db))
             /\ resp' = Response("createSale", 400,
                                 IF w.thrown THEN w.error ELSE "Internal",
                                 NULL, [line |-> w.line, items |-> items,
                                        sale_number |-> saleNumber])
             /\ UNCHANGED pre_stock
        ELSE /\ SetTables(commit(Db, w.db))
             /\ resp' = IF fault = "response"
                        THEN Response("createSale", 400, "Internal", NULL,
                                      [line |-> 0, items |-> items,
                                       sale_number |-> saleNumber])
                        ELSE Response("createSale", 201, "", w.saleId,
                                      [items |-> items,
                                       discount_amount |-> discount_amount,
                                       tax_amount |-> tax_amount])
             /\ pre_stock' = stock
     /\ UNCHANGED <<products, inflight>>

(***************************************************************************)
(* POST /sales/:id/refund                                                  *)
(***************************************************************************)
RefundFaults == {"none", "stock", "movement", "status", "commit", "response"}

\* the lookup without the condition on status
CompletedSale_AnyStatus(d, id) == id \in DOMAIN d.sales

\* SELECT * FROM sales WHERE id = ? AND status = "completed"
CompletedSale(d, id) == id \in DOMAIN d.sales /\ d.sales[id].status = "completed"

\* SELECT * FROM sale_items WHERE sale_id = ?  (ids, in id order)
RECURSIVE SaleItemIds(_, _, _)
SaleItemIds(d, id, i) ==
  IF i > Len(d.sale_items) THEN <<>>
  ELSE IF d.sale_items[i].sale_id = id
       THEN <<i>> \o SaleItemIds(d, id, i + 1)
       ELSE SaleItemIds(d, id, i + 1)

\* saleItems.filter(item => partial_items.some(pi => pi.sale_item_id === item.id))
RECURSIVE FilterItems(_, _)
FilterItems(saleItems, partial_items) ==
  IF saleItems = <<>> THEN <<>>
  ELSE IF Head(saleItems) \in partial_items
       THEN <<Head(saleItems)>> \o FilterItems(Tail(saleItems), partial_items)
       ELSE FilterItems(Tail(saleItems), partial_items)

ItemsToRefund(saleItems, partial_items) ==
  IF partial_items # {} THEN FilterItems(saleItems, partial_items) ELSE saleItems

\* the statements restoring the stock of one refunded item
RefundItemWrites(d, id, item, fault) ==
  IF ~HasStock(d, item.product_id, item.variant_id)
  THEN [db |-> d, thrown |-> FALSE]
  ELSE LET currentQuantity == StockQuantity(d, item.product_id, item.variant_id)
           newQuantity == currentQuantity + item.quantity
           d1 == UpdateStock(d, item.product_id, item.variant_id, newQuantity)
           d2 == InsertMovement(d1, item.product_id, item.variant_id, "return",
                                item.quantity, currentQuantity, newQuantity,
                                id, "refund")
       IN CASE fault = "stock" -> [db |-> d, thrown |-> TRUE]
            [] fault = "movement" -> [db |-> d1, thrown |-> TRUE]
            [] OTHER -> [db |-> d2, thrown |-> FALSE]

RECURSIVE RefundLoop(_, _, _, _, _)
RefundLoop(d, id, itemsToRefund, i, fault) ==
  IF i > Len(itemsToRefund)
  THEN [db |-> d, thrown |-> FALSE]
  ELSE LET r == RefundItemWrites(d, id, d.sale_items[itemsToRefund[i]], fault)
       IN IF r.thrown THEN r
          ELSE RefundLoop(r.db, id, itemsToRefund, i + 1, fault)

\* UPDATE sales SET status = ?, notes = ? WHERE id = ?
UpdateSale(d, id, isFullRefund, notes) ==
  [d EXCEPT !.sales[id] =
     [@ EXCEPT !.status = IF isFullRefund THEN "refunded" ELSE "completed",
               !.notes = notes + 1]]

\* the refund with the status decided by whether anything was refunded
RefundWrites_AnyIsFull(d, id, partial_items, fault) ==
  LET saleItems == SaleItemIds(d, id, 1)
      itemsToRefund == ItemsToRefund(saleItems, partial_items)
      r == RefundLoop(d, id, itemsToRefund, 1, fault)
      isFullRefund == Len(itemsToRefund) > 0
  IN IF r.thrown THEN r
     ELSE IF fault = "status" THEN [db |-> r.db, thrown |-> TRUE]
     ELSE [db |-> UpdateSale(r.db, id, isFullRefund, d.sales[id].notes),
           thrown |-> FALSE]

\* everything between beginTransaction and commit
RefundWrites(d, id, partial_items, fault) ==
  LET saleItems == SaleItemIds(d, id, 1)
      itemsToRefund == ItemsToRefund(saleItems, partial_items)
      r == RefundLoop(d, id, itemsToRefund, 1, fault)
      isFullRefund == Len(itemsToRefund) = Len(saleItems)
  IN IF r.thrown THEN r
     ELSE IF fault = "status" THEN [db |-> r.db, thrown |-> TRUE]
     ELSE [db |-> UpdateSale(r.db, id, isFullRefund, d.sales[id].notes),
           thrown |-> FALSE]

RefundData(d, id, partial_items) ==
  LET saleItems == SaleItemIds(d, id, 1)
      itemsToRefund == ItemsToRefund(saleItems, partial_items)
  IN [refund_type |-> IF Len(itemsToRefund) = Len(saleItems)
                      THEN "full" ELSE "partial",
      refunded_items |-> Len(itemsToRefund),
      total_items |-> Len(saleItems),
      partial_items |-> partial_items]

Refund(id, partial_items, fault) ==
  /\ IF ~CompletedSale(Db, id)
     THEN /\ UNCHANGED tables
          /\ resp' = Response("refund", 404, "NotFound", id, NoData)
     ELSE LET w == RefundWrites(Db, id, partial_items, fault)
          IN /\ IF w.thrown \/ fault = "commit"
                THEN /\ SetTables(rollback(Db, w.db))
                     /\ resp' = Response("refund", 500, "Internal", id, NoData)
                ELSE /\ SetTables(commit(Db, w.db))
                     /\ resp' = IF fault = "response"
                                THEN Response("refund", 500, "Internal", id, NoData)
                                ELSE Response("refund", 200, "", id,
                                              RefundData(Db, id, partial_items))
  /\ UNCHANGED <<products, pre_stock, inflight>>

\* The same handler as the event loop runs it: the read of the sale with
\* status completed and of its items is one step, the transaction is a later
\* step, and another request may run between the two.
RefundLookup(r, id, partial_items) ==
  /\ inflight[r].pc = "idle"
  /\ IF ~CompletedSale(Db, id)
     THEN /\ resp' = Response("refund", 404, "NotFound", id, NoData)
          /\ UNCHANGED inflight
     ELSE /\ inflight' = [inflight EXCEPT ![r] =
               [pc |-> "refund", id |-> id, partial_items |-> partial_items]]
          /\ UNCHANGED resp
  /\ UNCHANGED <<products, tables, pre_stock>>

RefundCommit(r, fault) ==
  /\ inflight[r].pc = "refund"
  /\ LET id == inflight[r].id
         partial_items == inflight[r].partial_items
         w == RefundWrites(Db, id, partial_items, fault)
     IN IF w.thrown \/ fault = "commit"
        THEN /\ SetTables(rollback(Db, w.db))
             /\ resp' = Response("refund", 500, "Internal", id, NoData)
        ELSE /\ SetTables(commit(Db, w.db))
             /\ resp' = Response("refund", 200, "", id,
                                 RefundData(Db, id, partial_items))
  /\ inflight' = [inflight EXCEPT ![r] = Idle]
  /\ UNCHANGED <<products, pre_stock>>

(***************************************************************************)
(* PUT /stock/alerts/:id/acknowledge                                       *)
(***************************************************************************)
\* the handler without the condition alert_status = "active" in its lookup
Acknowledge_AnyStatus(id) ==
  /\ IF id \in DOMAIN low_stock_alerts
     THEN /\ low_stock_alerts' = [low_stock_alerts EXCEPT
                                    ![id].alert_status = "acknowledged",
                                    ![id].acknowledged_by = Actor,
                                    ![id].acknowledged_at = CURRENT_TIMESTAMP]
          /\ resp' = Response("acknowledge", 200, "", id, NoData)
     ELSE /\ UNCHANGED low_stock_alerts
          /\ resp' = Response("acknowledge", 404, "NotFound", id, NoData)
  /\ UNCHANGED <<products, stock, stock_movements, sales, sale_items,
                 pre_stock, inflight>>

Acknowledge(id) ==
  /\ IF id \in DOMAIN low_stock_alerts /\ low_stock_alerts[id].alert_status = "active"
     THEN /\ low_stock_alerts' = [low_stock_alerts EXCEPT
                                    ![id].alert_status = "acknowledged",
                                    ![id].acknowledged_by = Actor,
                                    ![id].acknowledged_at = CURRENT_TIMESTAMP]
          /\ resp' = Response("acknowledge", 200, "", id, NoData)
     ELSE /\ UNCHANGED low_stock_alerts
          /\ resp' = Response("acknowledge", 404, "NotFound", id, NoData)
  /\ UNCHANGED <<products, stock, stock_movements, sales, sale_items,
                 pre_stock, inflight>>

(***************************************************************************)
(* Requests. P is the set of product ids the requests name with every      *)
(* type and quantity; one request names a variant (no stock line has one)  *)
(* and one names a product id that was never created.                      *)
(***************************************************************************)
MissingProduct == MaxProducts + 1

AdjustmentItems(P) ==
  [product_id : P, variant_id : {NULL},
   adjustment_type : AdjustmentTypes, quantity : 0..MaxQuantity]
  \cup {[product_id |-> 1, variant_id |-> 1, adjustment_type |-> "in",
         quantity |-> 1],
        [product_id |-> MissingProduct, variant_id |-> NULL,
         adjustment_type |-> "in", quantity |-> 1]}

SaleLines(P) ==
  [product_id : P, variant_id : {NULL}, quantity : 1..MaxQuantity,
   unit_price : {MaxPrice}]
  \cup {[product_id |-> 1, variant_id |-> 1, quantity |-> 1,
         unit_price |-> MaxPrice],
        [product_id |-> MissingProduct, variant_id |-> NULL, quantity |-> 1,
         unit_price |-> MaxPrice]}

\* lines of the products P with every quantity and unit price
PricedLines(P) ==
  [product_id : P, variant_id : {NULL}, quantity : 1..MaxQuantity,
   unit_price : 0..MaxPrice]

\* discount_amount = 0, tax_amount = 0 when the request gives none
NoDiscount == 0
NoTax == 0

SeqsUpTo(S, n) == UNION {[1..k -> S] : k \in 1..n}

NoFaults(adjustments) == [i \in DOMAIN adjustments |-> "none"]

\* bounds on what a step may leave behind
Room(n) == Len(stock_movements) + n <= MaxMovements

StockCap == \A i \in DOMAIN stock' : stock'[i].quantity <= MaxStock

(***************************************************************************)
(* Specification: every handler, from the empty database.                  *)
(***************************************************************************)
Init ==
  /\ products = <<>>
  /\ stock = <<>>
  /\ stock_movements = <<>>
  /\ low_stock_alerts = <<>>
  /\ sales = <<>>
  /\ sale_items = <<>>
  /\ resp = Response("init", 0, "", NULL, NoData)
  /\ pre_stock = <<>>
  /\ inflight = [r \in RequestIds |-> Idle]
  /\ users = SeedUsers
  /\ categories = <<>>
  /\ req_user = NULL

Created == 1..MaxCreated

Next ==
  \/ /\ UNCHANGED other_tables
     /\ \E min \in MinLevels, fault \in ProductFaults :
           Len(products) < MaxCreated /\ CreateProduct(min, fault)
  \/ /\ UNCHANGED other_tables
     /\ \E id \in Created : DeleteProduct(id)
  \/ /\ UNCHANGED other_tables
     /\ \E item \in AdjustmentItems(Created), fault \in {"none", "response"} :
           /\ Room(1)
           /\ Adjust(item.product_id, item.variant_id, item.adjustment_type,
                     item.quantity, fault)
           /\ StockCap
  \/ /\ UNCHANGED other_tables
     /\ \E adjustments \in SeqsUpTo(AdjustmentItems(Created), MaxBulk),
           commitFault \in BOOLEAN :
           /\ Room(Len(adjustments))
           /\ BulkAdjust(adjustments, NoFaults(adjustments), commitFault)
           /\ StockCap
  \/ /\ UNCHANGED other_tables
     /\ \E items \in SeqsUpTo(SaleLines(Created), MaxLines), saleNumber \in SaleNumbers,
           fault \in {"none", "response"} :
           /\ Room(Len(items))
           /\ Len(sales) < MaxSales \/ SaleNumberTaken(Db, saleNumber)
           /\ CreateSale(items, saleNumber, NoDiscount, NoTax, fault)
  \/ /\ UNCHANGED other_tables
     /\ \E id \in 1..MaxSales, fault \in {"none", "response"} :
           \E partial_items \in SUBSET (1..(Len(sale_items) + 1)) :
              /\ Room(Cardinality(partial_items \cap DOMAIN sale_items))
              /\ partial_items = {} => Room(Len(SaleItemIds(Db, id, 1)))
              /\ (id \in DOMAIN sales /\ sales[id].status = "completed")
                    => sales[id].notes < MaxNotes
              /\ Refund(id, partial_items, fault)
              /\ StockCap
  \/ /\ UNCHANGED other_tables
     /\ \E id \in 1..MaxMovements : Acknowledge(id)

Spec == Init /\ [][Next]_vars

(***************************************************************************)
(* SaleSpec: sales and refunds with every line, fault and refund target,   *)
(* from a catalog of MaxProducts products stocked by adjustments.          *)
(***************************************************************************)
RECURSIVE StockedDb(_, _, _, _)
StockedDb(d, mins, quantities, p) ==
  IF p > MaxProducts THEN d
  ELSE LET d1 == [d EXCEPT !.stock = Append(@, [product_id |-> p,
                                  variant_id |-> NULL, quantity |-> 0])]
           d2 == IF quantities[p] = 0 THEN d1
                 ELSE AdjustWrites(d1, p, NULL, "adjustment", quantities[p], 0,
                                   mins[p], "none")
       IN StockedDb(d2, mins, quantities, p + 1)

EmptyDb == [stock |-> <<>>, stock_movements |-> <<>>, low_stock_alerts |-> <<>>,
            sales |-> <<>>, sale_items |-> <<>>]

InitStocked ==
  \E mins \in [ProductIds -> MinLevels], quantities \in [ProductIds -> 0..MaxQuantity] :
     /\ products = [p \in ProductIds |->
                      [is_active |-> TRUE, min_stock_level |-> mins[p]]]
     /\ stock = StockedDb(EmptyDb, mins, quantities, 1).stock
     /\ stock_movements = StockedDb(EmptyDb, mins, quantities, 1).stock_movements
     /\ low_stock_alerts = StockedDb(EmptyDb, mins, quantities, 1).low_stock_alerts
     /\ sales = <<>>
     /\ sale_items = <<>>
     /\ resp = Response("init", 0, "", NULL, NoData)
     /\ pre_stock = <<>>
     /\ inflight = [r \in RequestIds |-> Idle]
     /\ users = SeedUsers
     /\ categories = <<>>
     /\ req_user = NULL

SaleNext ==
  \/ /\ UNCHANGED other_tables
     /\ \E items \in SeqsUpTo(SaleLines(ProductIds), MaxLines),
           saleNumber \in 1..MaxSales, fault \in SaleFaults :
           /\ Len(sales) < MaxSales
           /\ CreateSale(items, saleNumber, NoDiscount, NoTax, fault)
  \/ /\ UNCHANGED other_tables
     /\ \E id \in 1..(MaxSales + 1), fault \in RefundFaults :
           \E partial_items \in SUBSET (1..(Len(sale_items) + 1)) :
              /\ (id \in DOMAIN sales /\ sales[id].status = "completed")
                    => sales[id].notes < MaxNotes
              /\ Refund(id, partial_items, fault)

SaleSpec == InitStocked /\ [][SaleNext]_vars

(***************************************************************************)
(* AdjSpec: single adjustments of the created products with every          *)
(* statement that can throw, changes of the min-level, deletions and       *)
(* acknowledgements, from the stocked catalog.                             *)
(***************************************************************************)
AdjNext ==
  \/ /\ UNCHANGED other_tables
     /\ \E id \in Created, min \in MinLevels : UpdateProduct(id, min)
  \/ /\ UNCHANGED other_tables
     /\ \E id \in Created : DeleteProduct(id)
  \/ /\ UNCHANGED other_tables
     /\ \E item \in AdjustmentItems(Created), fault \in AdjustFaults :
           /\ Room(1)
           /\ Adjust(item.product_id, item.variant_id, item.adjustment_type,
                     item.quantity, fault)
           /\ StockCap
  \/ /\ UNCHANGED other_tables
     /\ \E id \in 1..MaxMovements : Acknowledge(id)

AdjSpec == InitStocked /\ [][AdjNext]_vars

(***************************************************************************)
(* TotalsSpec: sales with every unit price, discount and tax, from the     *)
(* stocked catalog.                                                        *)
(***************************************************************************)
TotalsNext ==
  \E items \in SeqsUpTo(PricedLines(Created), MaxLines),
     saleNumber \in 1..MaxSales, discount_amount \in 0..MaxDiscount,
     tax_amount \in 0..MaxTax :
     /\ Len(sales) < MaxSales
     /\ CreateSale(items, saleNumber, discount_amount, tax_amount, "none")
     /\ UNCHANGED other_tables

TotalsSpec == InitStocked /\ [][TotalsNext]_vars

(***************************************************************************)
(* NumberSpec: sales of one line under every generated sale number, up to  *)
(* one sale more than the other specifications keep, from the stocked      *)
(* catalog.                                                                *)
(***************************************************************************)
NumberNext ==
  \E line \in SaleLines(ProductIds), saleNumber \in SaleNumbers,
     fault \in {"none", "header", "commit"} :
     /\ \/ Len(sales) <= MaxSales
        \/ \E i \in DOMAIN sales : sales[i].sale_number = saleNumber
     /\ CreateSale(<<line>>, saleNumber, NoDiscount, NoTax, fault)
     /\ UNCHANGED other_tables

NumberSpec == InitStocked /\ [][NumberNext]_vars

(***************************************************************************)
(* RefundSpec: sales of lines of quantity 1 and refunds of every set of     *)
(* their items, one refund more per sale than the other specifications     *)
(* keep, from the stocked catalog.                                         *)
(***************************************************************************)
UnitLines(P) == {line \in SaleLines(P) : line.quantity = 1 /\ line.variant_id = NULL}

RefundNext ==
  \/ /\ UNCHANGED other_tables
     /\ \E items \in SeqsUpTo(UnitLines(ProductIds), MaxLines),
           saleNumber \in 1..MaxSales :
           /\ Len(sales) < MaxSales
           /\ CreateSale(items, saleNumber, NoDiscount, NoTax, "none")
  \/ /\ UNCHANGED other_tables
     /\ \E id \in 1..MaxSales, fault \in {"none", "commit"} :
           \E partial_items \in SUBSET (1..(Len(sale_items) + 1)) :
              /\ (id \in DOMAIN sales /\ sales[id].status = "completed")
                    => sales[id].notes <= MaxNotes
              /\ Refund(id, partial_items, fault)

RefundSpec == InitStocked /\ [][RefundNext]_vars

(***************************************************************************)
(* ConcRefundSpec: refund requests of one sale interleaved at the await     *)
(* between the read of the sale and the transaction.                       *)
(***************************************************************************)
ConcRefundNext ==
  \/ /\ UNCHANGED other_tables
     /\ \E items \in SeqsUpTo(UnitLines(ProductIds), MaxLines),
           saleNumber \in 1..MaxSales :
           /\ Len(sales) < MaxSales
           /\ \A r \in RequestIds : inflight[r].pc = "idle"
           /\ CreateSale(items, saleNumber, NoDiscount, NoTax, "none")
  \/ /\ UNCHANGED other_tables
     /\ \E r \in RequestIds, id \in 1..MaxSales :
           \E partial_items \in {{}, DOMAIN sale_items} :
              RefundLookup(r, id, partial_items)
  \/ /\ UNCHANGED other_tables
     /\ \E r \in RequestIds, fault \in {"none", "commit"} : RefundCommit(r, fault)

ConcRefundSpec == InitStocked /\ [][ConcRefundNext]_vars

(***************************************************************************)
(* BulkSpec: batches in which any statement of any item can throw, from    *)
(* the empty database.                                                     *)
(***************************************************************************)
\* one item of each type for the products P, an item naming a variant and an
\* item naming a product that was never created
FaultItems(P) ==
  {item \in AdjustmentItems(P) : item.quantity = 1}

BulkNext ==
  \/ /\ UNCHANGED other_tables
     /\ \E min \in MinLevels :
           Len(products) < MaxCreated /\ CreateProduct(min, "none")
  \/ /\ UNCHANGED other_tables
     /\ \E adjustments \in SeqsUpTo(FaultItems(Created), MaxBulk),
           commitFault \in BOOLEAN :
           \E faults \in [DOMAIN adjustments -> BulkFaults] :
              /\ Room(Len(adjustments))
              /\ BulkAdjust(adjustments, faults, commitFault)
              /\ StockCap

BulkSpec == Init /\ [][BulkNext]_vars

(***************************************************************************)
(* FrameSpec: adjust, bulkAdjust, createSale and refund on either product   *)
(* of the stocked catalog, with quantities of 1.                           *)
(***************************************************************************)
FrameNext ==
  \/ /\ UNCHANGED other_tables
     /\ \E item \in FaultItems(ProductIds), fault \in {"none", "commit"} :
           /\ Room(1)
           /\ Adjust(item.product_id, item.variant_id, item.adjustment_type,
                     item.quantity, fault)
           /\ StockCap
  \/ /\ UNCHANGED other_tables
     /\ \E adjustments \in SeqsUpTo(FaultItems(ProductIds), MaxBulk),
           commitFault \in BOOLEAN :
           /\ Room(Len(adjustments))
           /\ BulkAdjust(adjustments, NoFaults(adjustments), commitFault)
           /\ StockCap
  \/ /\ UNCHANGED other_tables
     /\ \E items \in SeqsUpTo(UnitLines(ProductIds), MaxLines),
           saleNumber \in 1..MaxSales, fault \in {"none", "commit"} :
           /\ Room(Len(items))
           /\ Len(sales) < MaxSales
           /\ CreateSale(items, saleNumber, NoDiscount, NoTax, fault)
  \/ /\ UNCHANGED other_tables
     /\ \E id \in 1..MaxSales, fault \in {"none", "commit"} :
           \E partial_items \in SUBSET DOMAIN sale_items :
              /\ Room(Len(ItemsToRefund(SaleItemIds(Db, id, 1), partial_items)))
              /\ (id \in DOMAIN sales /\ sales[id].status = "completed")
                    => sales[id].notes < MaxNotes
              /\ Refund(id, partial_items, fault)
              /\ StockCap

FrameSpec == InitStocked /\ [][FrameNext]_vars

(***************************************************************************)
(* ConcSpec: adjust requests interleaved at the await between the stock    *)
(* read and the transaction.                                               *)
(***************************************************************************)
InFlight == Cardinality({r \in RequestIds : inflight[r].pc = "transaction"})

ConcNext ==
  \/ /\ UNCHANGED other_tables
     /\ \E min \in MinLevels :
           Len(products) < MaxCreated /\ CreateProduct(min, "none")
  \/ /\ UNCHANGED other_tables
     /\ \E r \in RequestIds, item \in AdjustmentItems(Created) :
           /\ Room(InFlight + 1)
           /\ AdjustLookup(r, item.product_id, item.variant_id,
                           item.adjustment_type, item.quantity)
  \/ /\ UNCHANGED other_tables
     /\ \E r \in RequestIds, fault \in {"none", "movement"} :
           /\ AdjustCommit(r, fault)
           /\ StockCap

ConcSpec == Init /\ [][ConcNext]_vars

(***************************************************************************)
(* Properties of the ledger.                                               *)
(***************************************************************************)
\* the database after the step
DbNext == [stock |-> stock', stock_movements |-> stock_movements',
           low_stock_alerts |-> low_stock_alerts', sales |-> sales',
           sale_items |-> sale_items']

\* the movements the step wrote
Written == (Len(stock_movements) + 1)..Len(stock_movements')

\* the movements of one stock line, in creation order
RECURSIVE LineMovements(_, _, _)
LineMovements(movements, p, v) ==
  IF movements = <<>> THEN <<>>
  ELSE IF Head(movements).product_id = p /\ Head(movements).variant_id = v
       THEN <<Head(movements)>> \o LineMovements(Tail(movements), p, v)
       ELSE LineMovements(Tail(movements), p, v)

RECURSIVE SumChanges(_)
SumChanges(movements) ==
  IF movements = <<>> THEN 0
  ELSE Head(movements).quantity_change + SumChanges(Tail(movements))

ActiveAlerts(p, v) ==
  {i \in DOMAIN low_stock_alerts :
     /\ low_stock_alerts[i].product_id = p
     /\ low_stock_alerts[i].variant_id = v
     /\ low_stock_alerts[i].alert_status = "active"}

\* C1: non-negativity. In every reachable state every stock line's quantity
\* is >= 0, whatever quantities the requests ask to remove.
C1_NonNegative == \A i \in DOMAIN stock : stock[i].quantity >= 0

\* an out adjustment that asked for more than the line held has been applied
C1_Witness ==
  /\ resp.op = "adjust" /\ resp.status = 200
  /\ resp.data.type = "out"
  /\ resp.data.previous_quantity >= 1
  /\ resp.data.quantity > resp.data.previous_quantity
  /\ \E i \in DOMAIN stock : stock[i].product_id = resp.ref /\ stock[i].quantity = 0

\* C2: ledger replay. For every stock line the sum of quantity_change over
\* its movements, starting from 0, equals the line's current quantity.
C2_LedgerReplay ==
  \A i \in DOMAIN stock :
     SumChanges(LineMovements(stock_movements, stock[i].product_id,
                              stock[i].variant_id)) = stock[i].quantity

\* C3: every movement has quantity_after = quantity_before + quantity_change,
\* its quantity_before is the line's quantity just before the write (0 for the
\* first movement, the previous movement's quantity_after otherwise) and the
\* last movement's quantity_after is the line's current quantity.
C3_LedgerChain ==
  \A i \in DOMAIN stock :
     LET ms == LineMovements(stock_movements, stock[i].product_id,
                             stock[i].variant_id)
     IN /\ \A k \in DOMAIN ms :
             /\ ms[k].quantity_after = ms[k].quantity_before + ms[k].quantity_change
             /\ ms[k].quantity_before = IF k = 1 THEN 0 ELSE ms[k - 1].quantity_after
        /\ ms # <<>> => ms[Len(ms)].quantity_after = stock[i].quantity
        /\ ms = <<>> => stock[i].quantity = 0

\* C4: single active alert. At most one low_stock_alerts row is active per
\* (product, variant) in every reachable state.
C4_SingleActiveAlert ==
  \A p \in ProductIds, v \in VariantIds : Cardinality(ActiveAlerts(p, v)) <= 1

\* a line breached again after an earlier alert was acknowledged or resolved
C4_Witness ==
  \E i, j \in DOMAIN low_stock_alerts :
     /\ i < j
     /\ low_stock_alerts[i].product_id = low_stock_alerts[j].product_id
     /\ low_stock_alerts[i].alert_status \in {"acknowledged", "resolved"}
     /\ low_stock_alerts[j].alert_status = "active"
     /\ \E k \in DOMAIN stock :
           /\ stock[k].product_id = low_stock_alerts[j].product_id
           /\ stock[k].quantity # low_stock_alerts[j].current_stock
           /\ stock[k].quantity <= products[stock[k].product_id].min_stock_level

(***************************************************************************)
(* Properties of createSale and refund.                                    *)
(***************************************************************************)
SaleItemsOf(items, id) == {i \in DOMAIN items : items[i].sale_id = id}

ValidLine(line) ==
  /\ ActiveProduct(line.product_id)
  /\ HasStock(Db, line.product_id, line.variant_id)
  /\ StockQuantity(Db, line.product_id, line.variant_id) >= line.quantity

\* C5: createSale validates every line before any write. A sale that fails
\* validation leaves every table as it was, and a sale that succeeds had only
\* lines whose product is active and whose stock line held the quantity.
C5_ValidationFirst ==
  [][/\ (resp'.op = "createSale"
         /\ resp'.error \in {"ProductNotFound", "InsufficientStock"})
        => UNCHANGED tables
     /\ (resp'.op = "createSale" /\ resp'.status = 201)
        => \A k \in DOMAIN resp'.data.items : ValidLine(resp'.data.items[k])]_vars

\* the second line of a sale failed validation after a valid first line
C5_Witness ==
  /\ resp.op = "createSale"
  /\ resp.error = "InsufficientStock"
  /\ resp.data.line = 2
  /\ sales = <<>> /\ sale_items = <<>>
  /\ \E i \in DOMAIN stock : stock[i].quantity >= 1

\* C6: all-or-nothing sale. Whenever createSale reports failure nothing of
\* the sale is persisted and no table changes; whenever it reports success
\* the header, every item and every movement are persisted together.
C6_AllOrNothing ==
  [][resp'.op = "createSale" =>
       IF resp'.status = 201
       THEN /\ Len(sales') = Len(sales) + 1
            /\ Len(sale_items') = Len(sale_items) + Len(resp'.data.items)
            /\ Len(stock_movements') = Len(stock_movements) + Len(resp'.data.items)
       ELSE UNCHANGED tables]_vars

\* C9: a full refund right after the sale writes one return movement per sold
\* item (quantity_change = +quantity, reference the sale, type refund), sets
\* the sale to refunded, and gives every stock line the quantity it had
\* before the sale.
C9_SaleRefundRoundTrip ==
  [][(/\ resp.op = "createSale" /\ resp.status = 201
      /\ resp'.op = "refund" /\ resp'.status = 200
      /\ resp'.ref = resp.ref
      /\ resp'.data.refund_type = "full")
     => /\ sales'[resp.ref].status = "refunded"
        /\ Len(stock_movements') = Len(stock_movements) + Len(resp.data.items)
        /\ \A k \in DOMAIN resp.data.items :
              LET m == stock_movements'[Len(stock_movements) + k]
              IN /\ m.movement_type = "return"
                 /\ m.product_id = resp.data.items[k].product_id
                 /\ m.quantity_change = resp.data.items[k].quantity
                 /\ m.reference_id = resp.ref
                 /\ m.reference_type = "refund"
        /\ \A i \in DOMAIN stock : stock'[i].quantity = pre_stock[i].quantity]_vars

\* C10: after a successful refund the sale is refunded if and only if every
\* item of the sale was in the call's target set; otherwise it stays
\* completed and one refund note is appended.
C10_RefundStatus ==
  [][(resp'.op = "refund" /\ resp'.status = 200)
     => LET id == resp'.ref
            all == SaleItemsOf(sale_items, id)
            target == IF resp'.data.partial_items = {} THEN all
                      ELSE resp'.data.partial_items
        IN /\ sales'[id].status = "refunded" <=> all \subseteq target
           /\ ~(all \subseteq target)
              => /\ sales'[id].status = "completed"
                 /\ sales'[id].notes = sales[id].notes + 1]_vars

\* a refund of one item of a two-item sale
C10_Witness ==
  /\ resp.op = "refund" /\ resp.status = 200
  /\ resp.data.refund_type = "partial"
  /\ resp.data.refunded_items = 1
  /\ resp.data.total_items = 2
  /\ sales[resp.ref].status = "completed"
  /\ sales[resp.ref].notes = 1

(***************************************************************************)
(* Properties of the adjustments.                                          *)
(***************************************************************************)
\* C7: read-modify-write on a stock line is serialized. Whenever an adjust
\* commits, the before-quantity it read is still the line's quantity, so the
\* ledger's before/after pairs are those of the serial order of the commits.
C7_SerializedReadModifyWrite ==
  [][\A r \in RequestIds :
       (/\ inflight[r].pc = "transaction"
        /\ inflight'[r].pc = "idle"
        /\ resp'.status = 200)
       => inflight[r].currentQuantity =
            StockQuantity(Db, inflight[r].product_id, inflight[r].variant_id)]_vars

\* the quantity of the line of the k-th successful item of a batch just
\* before that item: the result of the previous successful item on the same
\* line, or the line's quantity before the batch
BatchBefore(successful, k) ==
  LET earlier == {j \in 1..(k - 1) :
                    successful[j].product_id = successful[k].product_id}
  IN IF earlier = {}
     THEN StockQuantity(Db, successful[k].product_id, NULL)
     ELSE successful[CHOOSE j \in earlier : \A i \in earlier : i <= j].new_quantity

\* C8: over-withdrawal clamp. An out adjustment (single or bulk) of q on a
\* line holding b sets the quantity to max(0, b - q) and records
\* quantity_change = max(0, b - q) - b.
C8_OutClamp ==
  [][/\ (resp'.op = "adjust" /\ resp'.status = 200 /\ resp'.data.type = "out")
        => LET b == StockQuantity(Db, resp'.ref, NULL)
               q == resp'.data.quantity
               m == stock_movements'[Len(stock_movements')]
           IN /\ Len(stock_movements') = Len(stock_movements) + 1
              /\ StockQuantity(DbNext, resp'.ref, NULL) = Max(0, b - q)
              /\ m.movement_type = "out"
              /\ m.product_id = resp'.ref
              /\ m.quantity_before = b
              /\ m.quantity_after = Max(0, b - q)
              /\ m.quantity_change = Max(0, b - q) - b
     /\ (resp'.op = "bulkAdjust" /\ resp'.status = 200)
        => \A k \in DOMAIN resp'.data.successful :
              LET e == resp'.data.successful[k]
                  b == BatchBefore(resp'.data.successful, k)
                  m == stock_movements'[Len(stock_movements) + k]
                  later == {j \in DOMAIN resp'.data.successful :
                              j > k /\ resp'.data.successful[j].product_id = e.product_id}
              IN e.adjustment_type = "out"
                 => /\ m.movement_type = "out"
                    /\ m.product_id = e.product_id
                    /\ m.quantity_before = b
                    /\ m.quantity_after = Max(0, b - e.quantity)
                    /\ m.quantity_change = Max(0, b - e.quantity) - b
                    /\ later = {} =>
                         StockQuantity([Db EXCEPT !.stock = stock'], e.product_id, NULL)
                           = Max(0, b - e.quantity)]_vars

\* a bulk out item that asked for more than the line held, after an earlier
\* item of the same batch on the same line
C8_Witness ==
  /\ resp.op = "bulkAdjust" /\ resp.status = 200
  /\ Len(resp.data.successful) = 2
  /\ resp.data.successful[1].product_id = resp.data.successful[2].product_id
  /\ resp.data.successful[2].adjustment_type = "out"
  /\ resp.data.successful[2].previous_quantity >= 1
  /\ resp.data.successful[2].quantity > resp.data.successful[2].previous_quantity
  /\ resp.data.successful[2].quantity_change = -resp.data.successful[2].previous_quantity

(***************************************************************************)
(* Properties of the refund's precondition.                                *)
(***************************************************************************)
\* C11: a refund on a sale id that does not exist, or whose status is not
\* completed, answers NotFound and changes no stock quantity, writes no
\* movement and leaves the sale as it was: a refunded sale never credits
\* stock again.
C11_RefundNotFound ==
  [][(/\ resp'.op = "refund"
      /\ \/ resp'.ref \notin DOMAIN sales
         \/ sales[resp'.ref].status # "completed")
     => /\ resp'.status = 404
        /\ resp'.error = "NotFound"
        /\ UNCHANGED tables]_vars

\* a second refund of a sale whose full refund had credited its stock
C11_Witness ==
  /\ resp.op = "refund" /\ resp.status = 404
  /\ resp.ref \in DOMAIN sales
  /\ sales[resp.ref].status = "refunded"
  /\ \E i \in DOMAIN stock_movements :
        /\ stock_movements[i].movement_type = "return"
        /\ stock_movements[i].reference_id = resp.ref

(***************************************************************************)
(* Properties of the alerts.                                               *)
(***************************************************************************)
\* C12: whenever adjust, bulkAdjust, createSale or refund leaves a stock
\* line's quantity above the product's min-level, no alert of that
\* (product, variant) is active after the operation.
C12_ResolveAboveMin ==
  [][(/\ resp'.op \in {"adjust", "bulkAdjust", "createSale", "refund"}
      /\ resp'.status \in {200, 201})
     => \A k \in Written :
           LET m == stock_movements'[k]
           IN StockQuantity(DbNext, m.product_id, m.variant_id)
                 > products[m.product_id].min_stock_level
              => ~existingAlert(DbNext, m.product_id, m.variant_id)]_vars

(***************************************************************************)
(* Properties of bulkAdjust.                                               *)
(***************************************************************************)
\* an item of a batch whose product is active and whose stock line exists
ValidItem(item) ==
  /\ ActiveProduct(item.product_id)
  /\ HasStock(Db, item.product_id, item.variant_id)

InvalidItem(item) == ~ValidItem(item)

\* the lines the valid items of a batch name
BatchLines(adjustments) ==
  {<<adjustments[i].product_id, adjustments[i].variant_id>> :
     i \in {j \in DOMAIN adjustments : ValidItem(adjustments[j])}}

\* C13: bulk per-item isolation. An item whose product is missing or inactive
\* or whose stock line is missing is recorded in the failed list with its
\* reason and does not abort the batch: every valid item of the batch, before
\* or after it, is in the successful list in request order, has its movement
\* written and its line's alert reconciled with the line's final quantity.
C13_BulkIsolation ==
  [][(resp'.op = "bulkAdjust" /\ resp'.status = 200)
     => LET adjustments == resp'.data.adjustments
            valid == SelectSeq(adjustments, ValidItem)
            invalid == SelectSeq(adjustments, InvalidItem)
            successful == resp'.data.successful
            failed == resp'.data.failed
        IN /\ Len(successful) = Len(valid)
           /\ Len(failed) = Len(invalid)
           /\ \A k \in DOMAIN failed :
                 /\ failed[k].product_id = invalid[k].product_id
                 /\ failed[k].error =
                      IF ActiveProduct(invalid[k].product_id)
                      THEN "StockNotFound" ELSE "ProductNotFound"
           /\ Len(stock_movements') = Len(stock_movements) + Len(valid)
           /\ \A k \in DOMAIN successful :
                 /\ successful[k].product_id = valid[k].product_id
                 /\ successful[k].adjustment_type = valid[k].adjustment_type
                 /\ successful[k].quantity = valid[k].quantity
                 /\ LET m == stock_movements'[Len(stock_movements) + k]
                    IN /\ m.product_id = valid[k].product_id
                       /\ m.variant_id = valid[k].variant_id
                       /\ m.movement_type = valid[k].adjustment_type
                       /\ m.quantity_after = successful[k].new_quantity
           /\ \A l \in BatchLines(adjustments) :
                 existingAlert(DbNext, l[1], l[2])
                   <=> StockQuantity(DbNext, l[1], l[2])
                         <= products[l[1]].min_stock_level]_vars

\* a batch whose first item named a product that does not exist and whose
\* second item changed a stock line
C13_Witness ==
  /\ resp.op = "bulkAdjust" /\ resp.status = 200
  /\ Len(resp.data.adjustments) = 2
  /\ resp.data.adjustments[1].product_id = MissingProduct
  /\ Len(resp.data.failed) = 1
  /\ Len(resp.data.successful) = 1
  /\ resp.data.successful[1].quantity_change # 0

\* C14: every item in the successful list of a bulkAdjust has exactly one
\* movement, whose before/after are the reported previous_quantity and
\* new_quantity; the items of one batch on the same line form a serial
\* history: each item's quantity_before is the quantity_after of the previous
\* item on that line (the line's quantity before the batch for the first)
\* and the line's final quantity is the last item's quantity_after.
C14_BulkSerialHistory ==
  [][(resp'.op = "bulkAdjust" /\ resp'.status = 200)
     => LET successful == resp'.data.successful
        IN /\ Len(stock_movements') = Len(stock_movements) + Len(successful)
           /\ \A k \in DOMAIN successful :
                 LET e == successful[k]
                     m == stock_movements'[Len(stock_movements) + k]
                     later == {j \in DOMAIN successful :
                                 j > k /\ successful[j].product_id = e.product_id}
                 IN /\ m.product_id = e.product_id
                    /\ m.movement_type = e.adjustment_type
                    /\ m.quantity_before = e.previous_quantity
                    /\ m.quantity_after = e.new_quantity
                    /\ m.quantity_change = e.quantity_change
                    /\ m.quantity_before = BatchBefore(successful, k)
                    /\ later = {} =>
                         StockQuantity(DbNext, e.product_id, NULL) = m.quantity_after]_vars

\* two items of one batch on the same line, the second starting from the
\* quantity the first one left
C14_Witness ==
  /\ resp.op = "bulkAdjust" /\ resp.status = 200
  /\ Len(resp.data.successful) = 2
  /\ resp.data.successful[1].product_id = resp.data.successful[2].product_id
  /\ resp.data.successful[1].adjustment_type = "in"
  /\ resp.data.successful[1].quantity_change > 0
  /\ resp.data.successful[2].adjustment_type = "in"
  /\ resp.data.successful[2].previous_quantity = resp.data.successful[1].new_quantity
  /\ stock_movements[Len(stock_movements)].quantity_before
       = resp.data.successful[1].new_quantity

(***************************************************************************)
(* Properties of the single adjust.                                        *)
(***************************************************************************)
\* the step wrote one adjustment as a whole: one movement, the stock of its
\* line set to the movement's quantity_after, every other line untouched, the
\* line's alert reconciled with the new quantity, no sale touched
AdjustedTogether ==
  /\ Len(stock_movements') = Len(stock_movements) + 1
  /\ SubSeq(stock_movements', 1, Len(stock_movements)) = stock_movements
  /\ LET m == stock_movements'[Len(stock_movements')]
     IN /\ ActiveProduct(m.product_id)
        /\ HasStock(Db, m.product_id, m.variant_id)
        /\ m.quantity_before = StockQuantity(Db, m.product_id, m.variant_id)
        /\ stock' = UpdateStock(Db, m.product_id, m.variant_id, m.quantity_after).stock
        /\ existingAlert(DbNext, m.product_id, m.variant_id)
             <=> m.quantity_after <= products[m.product_id].min_stock_level
  /\ UNCHANGED <<sales, sale_items>>

FailingLines(items) == {k \in DOMAIN items : ~ValidLine(items[k])}

FirstFailing(items) ==
  CHOOSE k \in FailingLines(items) : \A j \in FailingLines(items) : k <= j

\* a line whose stock line is missing or holds less than the line asks
ShortLine(line) ==
  \/ ~HasStock(Db, line.product_id, line.variant_id)
  \/ StockQuantity(Db, line.product_id, line.variant_id) < line.quantity

\* adjustments are never refused for insufficient stock: an out adjustment,
\* single or in a batch, on an existing line of an active product is never
\* answered with a refusal, whatever its quantity
AdjustNeverShort ==
  /\ resp'.op = "adjust"
       => /\ resp'.error # "InsufficientStock"
          /\ (/\ resp'.status # 200
              /\ resp'.data.type = "out"
              /\ resp'.data.quantity >= 1
              /\ ActiveProduct(resp'.ref)
              /\ HasStock(Db, resp'.ref, resp'.data.variant_id))
             => resp'.status = 500
  /\ (resp'.op = "bulkAdjust" /\ resp'.status = 200)
       => /\ \A k \in DOMAIN resp'.data.failed :
                resp'.data.failed[k].error # "InsufficientStock"
          /\ Len(SelectSeq(resp'.data.adjustments, ValidItem))
               = Len(resp'.data.successful)

\* C16 as stated: adjustments never fail for insufficient stock, and
\* createSale fails with InsufficientStock exactly when some line's stock line
\* is missing or holds less than the requested quantity.
C16_Original ==
  [][/\ AdjustNeverShort
     /\ resp'.op = "createSale"
          => (resp'.error = "InsufficientStock"
                <=> \E k \in DOMAIN resp'.data.items :
                       ShortLine(resp'.data.items[k]))]_vars

\* C16: adjustments never fail for insufficient stock, and createSale fails
\* with InsufficientStock exactly when the first line that fails validation
\* names an active product whose stock line is missing or holds less than the
\* requested quantity (a line naming a missing or inactive product fails with
\* ProductNotFound instead).
C16_InsufficientStock ==
  [][/\ AdjustNeverShort
     /\ resp'.op = "createSale"
          => LET items == resp'.data.items
             IN /\ resp'.error = "InsufficientStock"
                     <=> /\ FailingLines(items) # {}
                         /\ ActiveProduct(items[FirstFailing(items)].product_id)
                         /\ ShortLine(items[FirstFailing(items)])
                /\ resp'.error = "ProductNotFound"
                     <=> /\ FailingLines(items) # {}
                         /\ ~ActiveProduct(items[FirstFailing(items)].product_id)]_vars

\* a sale was refused for its second line, which asked more than its line
\* held, after a first line on the same stock line that was valid
C16_Witness ==
  /\ resp.op = "createSale"
  /\ resp.error = "InsufficientStock"
  /\ Len(resp.data.items) = 2
  /\ resp.data.items[1].product_id = resp.data.items[2].product_id
  /\ ActiveProduct(resp.data.items[2].product_id)
  /\ HasStock(Db, resp.data.items[2].product_id, resp.data.items[2].variant_id)
  /\ LET q == StockQuantity(Db, resp.data.items[2].product_id,
                            resp.data.items[2].variant_id)
     IN /\ q >= resp.data.items[1].quantity
        /\ q < resp.data.items[2].quantity

(***************************************************************************)
(* Properties of the in and adjustment types of the single adjust.         *)
(***************************************************************************)
\* the adjust the step answered named an existing line of an active product
\* and no statement of it threw
AdjustOnLine ==
  /\ resp'.op = "adjust"
  /\ resp'.status # 500
  /\ resp'.status # 200
       => /\ ActiveProduct(resp'.ref)
          /\ HasStock(Db, resp'.ref, resp'.data.variant_id)

\* the step set the line of the adjust to q and recorded the change from b
AdjustedTo(q) ==
  LET b == StockQuantity(Db, resp'.ref, NULL)
      m == stock_movements'[Len(stock_movements')]
  IN /\ resp'.status = 200
     /\ Len(stock_movements') = Len(stock_movements) + 1
     /\ StockQuantity(DbNext, resp'.ref, NULL) = q
     /\ m.product_id = resp'.ref
     /\ m.movement_type = resp'.data.type
     /\ m.quantity_before = b
     /\ m.quantity_after = q
     /\ m.quantity_change = q - b

\* C17: an adjustment-type adjust with target q >= 0 (q = 0 included) on a
\* line holding b sets the quantity to exactly q and records quantity_change
\* = q - b; an in adjust of q >= 1 sets it to b + q with quantity_change = q.
C17_AbsoluteAndIn ==
  [][AdjustOnLine
     => /\ (resp'.data.type = "adjustment" /\ resp'.data.quantity >= 0)
             => AdjustedTo(resp'.data.quantity)
        /\ (resp'.data.type = "in" /\ resp'.data.quantity >= 1)
             => AdjustedTo(StockQuantity(Db, resp'.ref, NULL)
                             + resp'.data.quantity)]_vars

(***************************************************************************)
(* Properties of the refund's target set.                                  *)
(***************************************************************************)
\* C18: a refund whose partial item list names no item of the sale is
\* rejected with InvalidRequest or is a full no-op: it credits no stock,
\* writes no movement and leaves the sale's status and notes unchanged.
C18_EmptyTargetNoOp ==
  [][(/\ resp'.op = "refund"
      /\ resp'.status = 200
      /\ resp'.data.partial_items # {}
      /\ resp'.data.partial_items \cap SaleItemsOf(sale_items, resp'.ref) = {})
     => UNCHANGED tables]_vars

(***************************************************************************)
(* Properties of the alert rows.                                           *)
(***************************************************************************)
\* the alert rows the step inserted
Inserted == (Len(low_stock_alerts) + 1)..Len(low_stock_alerts')

InsertedFor(p, v) ==
  {j \in Inserted : /\ low_stock_alerts'[j].product_id = p
                    /\ low_stock_alerts'[j].variant_id = v}

\* C19: alert creation. When an adjust, a bulkAdjust item or a sale line
\* leaves a line's quantity q <= min-level m and no alert of the line is
\* active, exactly one alert is created, active, with current_stock = q and
\* min_stock_level = m; when q > m no alert is created.
C19_AlertCreation ==
  [][(/\ resp'.op \in {"adjust", "bulkAdjust", "createSale"}
      /\ resp'.status \in {200, 201})
     => /\ \A j \in Inserted :
              LET a == low_stock_alerts'[j]
              IN /\ a.current_stock <= a.min_stock_level
                 /\ a.min_stock_level = products[a.product_id].min_stock_level
                 /\ a.alert_status \in {"active", "resolved"}
                 /\ Cardinality(Written) = 1 => a.alert_status = "active"
                 /\ \E k \in Written :
                       /\ stock_movements'[k].product_id = a.product_id
                       /\ stock_movements'[k].variant_id = a.variant_id
                       /\ stock_movements'[k].quantity_after = a.current_stock
        /\ \A k \in Written :
              LET m == stock_movements'[k]
                  new == InsertedFor(m.product_id, m.variant_id)
                  low == m.quantity_after <= products[m.product_id].min_stock_level
              IN /\ low => \/ existingAlert(Db, m.product_id, m.variant_id)
                           \/ new # {}
                 /\ Cardinality({j \in new :
                                   low_stock_alerts'[j].alert_status = "active"}) <= 1
                 /\ Cardinality(Written) = 1
                      => Cardinality(new) =
                           IF low /\ ~existingAlert(Db, m.product_id, m.variant_id)
                           THEN 1 ELSE 0]_vars

\* an out adjustment left a line above its min-level without an alert and a
\* further out took it to the min-level or below, creating the one alert
C19_Witness ==
  /\ resp.op = "adjust" /\ resp.status = 200
  /\ Len(low_stock_alerts) = 1
  /\ \E i \in DOMAIN stock_movements :
        LET m == stock_movements[i]
            n == stock_movements[Len(stock_movements)]
            a == low_stock_alerts[1]
        IN /\ i < Len(stock_movements)
           /\ m.product_id = n.product_id
           /\ m.movement_type = "out" /\ n.movement_type = "out"
           /\ m.quantity_after > products[m.product_id].min_stock_level
           /\ n.quantity_after <= products[n.product_id].min_stock_level
           /\ a.product_id = n.product_id
           /\ a.alert_status = "active"
           /\ a.current_stock = n.quantity_after
           /\ a.min_stock_level = products[n.product_id].min_stock_level

\* C20: the snapshot of an existing alert is never mutated: no operation
\* changes the current_stock or min_stock_level of an existing
\* low_stock_alerts row, also when the quantity is lowered further while the
\* alert is active.
C20_AlertSnapshotFrozen ==
  [][\A i \in DOMAIN low_stock_alerts :
        /\ i \in DOMAIN low_stock_alerts'
        /\ low_stock_alerts'[i].product_id = low_stock_alerts[i].product_id
        /\ low_stock_alerts'[i].variant_id = low_stock_alerts[i].variant_id
        /\ low_stock_alerts'[i].current_stock = low_stock_alerts[i].current_stock
        /\ low_stock_alerts'[i].min_stock_level
             = low_stock_alerts[i].min_stock_level]_vars

\* a line was lowered below the current_stock of its alert, which is still
\* active
C20_Witness ==
  \E i \in DOMAIN low_stock_alerts, k \in DOMAIN stock :
     /\ low_stock_alerts[i].alert_status = "active"
     /\ stock[k].product_id = low_stock_alerts[i].product_id
     /\ stock[k].variant_id = low_stock_alerts[i].variant_id
     /\ stock[k].quantity < low_stock_alerts[i].current_stock
     /\ resp.status = 200
     /\ resp.op \in {"adjust", "bulkAdjust"}

\* C21: acknowledged and resolved are terminal. An alert becomes acknowledged
\* only through the acknowledge operation on an active alert; once an alert is
\* acknowledged or resolved no operation changes its status again; a later
\* breach creates a new alert row; acknowledging an alert that is not active
\* answers NotFound and changes nothing.
C21_TerminalAlertStatus ==
  [][/\ \A i \in DOMAIN low_stock_alerts :
           /\ i \in DOMAIN low_stock_alerts'
           /\ low_stock_alerts[i].alert_status \in {"acknowledged", "resolved"}
                => low_stock_alerts'[i].alert_status
                     = low_stock_alerts[i].alert_status
           /\ (/\ low_stock_alerts'[i].alert_status = "acknowledged"
               /\ low_stock_alerts[i].alert_status # "acknowledged")
                => /\ low_stock_alerts[i].alert_status = "active"
                   /\ resp'.op = "acknowledge"
                   /\ resp'.status = 200
                   /\ resp'.ref = i
     /\ \A j \in Inserted : low_stock_alerts'[j].alert_status # "acknowledged"
     /\ (/\ resp'.op = "adjust" /\ resp'.status = 200
         /\ resp'.data.new_quantity <= products[resp'.ref].min_stock_level
         /\ ~\E i \in DOMAIN low_stock_alerts :
                /\ low_stock_alerts[i].product_id = resp'.ref
                /\ low_stock_alerts[i].alert_status = "active")
          => /\ Cardinality(Inserted) = 1
             /\ \A j \in Inserted :
                   /\ low_stock_alerts'[j].product_id = resp'.ref
                   /\ low_stock_alerts'[j].alert_status = "active"
     /\ (/\ resp'.op = "acknowledge"
         /\ ~(/\ resp'.ref \in DOMAIN low_stock_alerts
              /\ low_stock_alerts[resp'.ref].alert_status = "active"))
          => /\ resp'.status = 404
             /\ resp'.error = "NotFound"
             /\ UNCHANGED <<products, tables>>]_vars

\* an acknowledged alert was acknowledged again, answered NotFound, after a
\* later breach of its line had created a new active alert
C21_Witness ==
  /\ resp.op = "acknowledge" /\ resp.status = 404
  /\ resp.ref \in DOMAIN low_stock_alerts
  /\ low_stock_alerts[resp.ref].alert_status = "acknowledged"
  /\ \E j \in DOMAIN low_stock_alerts :
        /\ j > resp.ref
        /\ low_stock_alerts[j].product_id = low_stock_alerts[resp.ref].product_id
        /\ low_stock_alerts[j].alert_status = "active"

\* C22: idempotent alert reconciliation. A successful adjust that reconciles
\* a line with the quantity and min-level the preceding successful adjust of
\* the same line reconciled it with (two consecutive adjustment-type adjusts to
\* the same target, or an adjust that leaves the quantity as it was) leaves
\* the alert rows and their statuses as the first left them: no duplicate
\* alert and no further status change.
C22_IdempotentReconciliation ==
  [][(/\ resp.op = "adjust" /\ resp.status = 200
      /\ resp'.op = "adjust" /\ resp'.status = 200
      /\ resp'.ref = resp.ref
      /\ \/ /\ resp.data.type = "adjustment"
            /\ resp'.data.type = "adjustment"
            /\ resp'.data.quantity = resp.data.quantity
         \/ resp'.data.new_quantity = resp.data.new_quantity)
     => low_stock_alerts' = low_stock_alerts]_vars

\* two consecutive adjustment-type adjusts set a line to the same quantity, at
\* or below its min-level, and the line has its one active alert
C22_Witness ==
  /\ resp.op = "adjust" /\ resp.status = 200
  /\ resp.data.type = "adjustment"
  /\ resp.data.quantity_change = 0
  /\ resp.data.new_quantity <= products[resp.ref].min_stock_level
  /\ Len(stock_movements) >= 2
  /\ LET n == stock_movements[Len(stock_movements)]
         m == stock_movements[Len(stock_movements) - 1]
     IN /\ m.product_id = resp.ref /\ n.product_id = resp.ref
        /\ m.movement_type = "adjustment" /\ n.movement_type = "adjustment"
        /\ m.quantity_after = n.quantity_after
        /\ m.quantity_change # 0
  /\ Cardinality({i \in DOMAIN low_stock_alerts :
                    low_stock_alerts[i].product_id = resp.ref}) = 1
  /\ Cardinality(ActiveAlerts(resp.ref, NULL)) = 1

\* C23: automatic resolution is distinguishable from manual acknowledgment.
\* In every reachable state every resolved alert and every active alert has
\* no acknowledger and no acknowledged-at timestamp, and every acknowledged
\* alert has both.
C23_AcknowledgerOnlyOnAcknowledged ==
  \A i \in DOMAIN low_stock_alerts :
     LET a == low_stock_alerts[i]
     IN /\ a.alert_status \in {"active", "resolved"}
             => a.acknowledged_by = NULL /\ a.acknowledged_at = NoTime
        /\ a.alert_status = "acknowledged"
             => a.acknowledged_by # NULL /\ a.acknowledged_at # NoTime
        /\ a.alert_status \in {"active", "acknowledged", "resolved"}

\* a line has an acknowledged alert and a later alert that an adjust resolved
C23_Witness ==
  \E i, j \in DOMAIN low_stock_alerts :
     /\ i < j
     /\ low_stock_alerts[i].alert_status = "acknowledged"
     /\ low_stock_alerts[j].alert_status = "resolved"
     /\ low_stock_alerts[i].product_id = low_stock_alerts[j].product_id
     /\ resp.op = "adjust" /\ resp.status = 200

(***************************************************************************)
(* Properties of the bulkAdjust response.                                  *)
(***************************************************************************)
\* the items of a batch at the positions S, in batch order
RECURSIVE ItemsAt(_, _, _)
ItemsAt(adjustments, S, i) ==
  IF i > Len(adjustments) THEN <<>>
  ELSE (IF i \in S THEN <<adjustments[i]>> ELSE <<>>)
       \o ItemsAt(adjustments, S, i + 1)

\* results holds one entry per item of items, in order
ResultsOf(results, items) ==
  /\ Len(results) = Len(items)
  /\ \A k \in DOMAIN results :
        /\ results[k].product_id = items[k].product_id
        /\ results[k].adjustment_type = items[k].adjustment_type
        /\ results[k].quantity = items[k].quantity

\* failed holds one entry per item of items, in order
FailedOf(failed, items) ==
  /\ Len(failed) = Len(items)
  /\ \A k \in DOMAIN failed : failed[k].product_id = items[k].product_id

\* C24: the bulkAdjust response accounts for every input item exactly once:
\* the batch splits into the items of successful and the items of failed, so
\* total = number of input items = successful + failed.
C24_BulkAccounting ==
  (resp.op = "bulkAdjust" /\ resp.status = 200)
     => /\ resp.data.total = Len(resp.data.adjustments)
        /\ resp.data.total = Len(resp.data.successful) + Len(resp.data.failed)
        /\ \E S \in SUBSET DOMAIN resp.data.adjustments :
              /\ ResultsOf(resp.data.successful,
                           ItemsAt(resp.data.adjustments, S, 1))
              /\ FailedOf(resp.data.failed,
                          ItemsAt(resp.data.adjustments,
                                  DOMAIN resp.data.adjustments \ S, 1))

\* a batch of MaxBulk items answered with an item whose statement threw in
\* failed, next to an item in successful or an item whose lookup found no row
C24_Witness ==
  /\ resp.op = "bulkAdjust" /\ resp.status = 200
  /\ resp.data.total = MaxBulk
  /\ \E k \in DOMAIN resp.data.failed : resp.data.failed[k].error = "Internal"
  /\ \/ resp.data.successful # <<>>
     \/ \E k \in DOMAIN resp.data.failed :
           resp.data.failed[k].error \in {"ProductNotFound", "StockNotFound"}

(***************************************************************************)
(* Properties of the sale.                                                 *)
(***************************************************************************)
\* the quantity the lines of a request ask of the stock line (p, v)
RECURSIVE LineQuantity(_, _, _)
LineQuantity(items, p, v) ==
  IF items = <<>> THEN 0
  ELSE (IF Head(items).product_id = p /\ Head(items).variant_id = v
        THEN Head(items).quantity ELSE 0)
       + LineQuantity(Tail(items), p, v)

\* C25: a successful createSale persists, for each request line in order, one
\* SaleItem and one StockMovement of kind sale with quantity_change =
\* -quantity, reference id = the sale's id and reference type sale, and
\* reduces the line's StockLine by the line quantity; the sale movements
\* referencing the sale are as many as its items.
C25_SalePersistsLines ==
  [][(resp'.op = "createSale" /\ resp'.status = 201)
     => LET items == resp'.data.items
            id == resp'.ref
        IN /\ Len(sale_items') = Len(sale_items) + Len(items)
           /\ Len(stock_movements') = Len(stock_movements) + Len(items)
           /\ \A k \in DOMAIN items :
                 LET si == sale_items'[Len(sale_items) + k]
                     m == stock_movements'[Len(stock_movements) + k]
                 IN /\ si.sale_id = id
                    /\ si.product_id = items[k].product_id
                    /\ si.variant_id = items[k].variant_id
                    /\ si.quantity = items[k].quantity
                    /\ m.product_id = items[k].product_id
                    /\ m.variant_id = items[k].variant_id
                    /\ m.movement_type = "sale"
                    /\ m.quantity_change = -items[k].quantity
                    /\ m.reference_id = id
                    /\ m.reference_type = "sale"
                    /\ StockQuantity(DbNext, items[k].product_id,
                                     items[k].variant_id)
                         = StockQuantity(Db, items[k].product_id,
                                         items[k].variant_id)
                           - LineQuantity(items, items[k].product_id,
                                          items[k].variant_id)
           /\ Cardinality({i \in DOMAIN stock_movements' :
                             /\ stock_movements'[i].reference_type = "sale"
                             /\ stock_movements'[i].reference_id = id})
                = Cardinality(SaleItemsOf(sale_items', id))]_vars

\* the sum of the total_price of the entries
RECURSIVE SumPrices(_)
SumPrices(entries) ==
  IF entries = <<>> THEN 0
  ELSE Head(entries).total_price + SumPrices(Tail(entries))

\* C26: sale totals. For integer inputs createSale stores total_amount = the
\* sum over the lines of quantity * unit price, minus the discount amount,
\* plus the tax amount, and each SaleItem's total_price = quantity * unit
\* price, with no clamping: the total is negative when the discount exceeds
\* subtotal plus tax.
C26_SaleTotals ==
  [][(resp'.op = "createSale" /\ resp'.status = 201)
     => LET items == resp'.data.items
            sale == sales'[resp'.ref]
            lineTotals == [k \in DOMAIN items |->
                             [total_price |->
                                items[k].quantity * items[k].unit_price]]
        IN /\ sale.total_amount = SumPrices(lineTotals)
                                    - sale.discount_amount + sale.tax_amount
           /\ sale.discount_amount = resp'.data.discount_amount
           /\ sale.tax_amount = resp'.data.tax_amount
           /\ \A k \in DOMAIN items :
                 LET si == sale_items'[Len(sale_items) + k]
                 IN /\ si.unit_price = items[k].unit_price
                    /\ si.total_price = items[k].quantity * items[k].unit_price]_vars

\* a sale of two priced lines whose discount exceeds subtotal plus tax is
\* stored with a negative total
C26_Witness ==
  /\ resp.op = "createSale" /\ resp.status = 201
  /\ Len(resp.data.items) = 2
  /\ resp.data.items[2].unit_price > 0
  /\ sales[resp.ref].tax_amount > 0
  /\ sales[resp.ref].total_amount < 0

\* C27: sale status state machine. Every sale is created with status
\* completed; the only status change any operation performs is completed to
\* refunded, by a refund that restores every item of the sale; refunded is
\* terminal; no sale ever has status pending or cancelled.
C27_SaleStatusMachine ==
  [][/\ \A i \in DOMAIN sales :
           /\ i \in DOMAIN sales'
           /\ sales[i].status = "refunded" => sales'[i].status = "refunded"
           /\ sales'[i].status # sales[i].status
                => /\ sales[i].status = "completed"
                   /\ sales'[i].status = "refunded"
                   /\ resp'.op = "refund"
                   /\ resp'.ref = i
                   /\ Cardinality(Written)
                        = Cardinality(SaleItemsOf(sale_items, i))
                   /\ \A k \in Written :
                         /\ stock_movements'[k].movement_type = "return"
                         /\ stock_movements'[k].reference_id = i
     /\ \A i \in DOMAIN sales' \ DOMAIN sales :
           sales'[i].status = "completed"
     /\ \A i \in DOMAIN sales' :
           sales'[i].status \in {"completed", "refunded"}]_vars

\* a sale of two lines was refunded by a refund naming both of its items
C27_Witness ==
  /\ resp.op = "refund" /\ resp.status = 200
  /\ resp.data.partial_items # {}
  /\ resp.data.refunded_items = 2
  /\ resp.data.total_items = 2
  /\ sales[resp.ref].status = "refunded"

\* C28: sale numbers are unique. In every reachable state no two persisted
\* sales have the same sale_number, whatever number the generator produces,
\* and a createSale whose generated number is the number of a persisted sale
\* persists nothing.
C28_UniqueSaleNumbers ==
  [][/\ \A i, j \in DOMAIN sales' :
           sales'[i].sale_number = sales'[j].sale_number => i = j
     /\ (/\ resp'.op = "createSale"
         /\ resp'.status # 201
         /\ \E i \in DOMAIN sales :
               sales[i].sale_number = resp'.data.sale_number)
          => UNCHANGED <<products, tables>>
     /\ (resp'.op = "createSale" /\ resp'.status = 201)
          => \A i \in DOMAIN sales :
                sales[i].sale_number # sales'[resp'.ref].sale_number]_vars

\* two sales are persisted and a createSale of a valid line that generated
\* the number of one of them was answered with an error
C28_Witness ==
  /\ Len(sales) = 2
  /\ resp.op = "createSale" /\ resp.status = 400
  /\ resp.error = "Internal"
  /\ resp.data.line = 0
  /\ \E i \in DOMAIN sales : sales[i].sale_number = resp.data.sale_number

\* C29: the movement ledger is append-only. No operation updates or deletes
\* an existing StockMovement row: across every step the rows only grow in
\* number and every row written before keeps all its field values.
C29_LedgerAppendOnly ==
  [][/\ Len(stock_movements') >= Len(stock_movements)
     /\ \A i \in DOMAIN stock_movements :
           stock_movements'[i] = stock_movements[i]]_vars

\* the ledger of one line holds an adjustment, a sale and a return, written
\* by three operations, and a later operation failed
C29_Witness ==
  /\ \E i, j, k \in DOMAIN stock_movements :
        /\ i < j /\ j < k
        /\ stock_movements[i].movement_type \in AdjustmentTypes
        /\ stock_movements[j].movement_type = "sale"
        /\ stock_movements[k].movement_type = "return"
        /\ stock_movements[i].product_id = stock_movements[j].product_id
        /\ stock_movements[j].product_id = stock_movements[k].product_id
  /\ resp.status \in {400, 404, 500}

(***************************************************************************)
(* Properties of the stock lines.                                          *)
(***************************************************************************)
\* C30: stock line provisioning. Creating a product atomically creates one
\* StockLine for (product, no variant) with quantity 0 and no movement; no
\* other operation creates or deletes StockLines; in every reachable state
\* every product has exactly one StockLine and no other StockLine exists.
C30_StockLineProvisioning ==
  [][/\ (resp'.op = "createProduct" /\ resp'.status = 201)
          => /\ Len(products') = Len(products) + 1
             /\ resp'.ref = Len(products')
             /\ stock' = Append(stock, [product_id |-> resp'.ref,
                                        variant_id |-> NULL, quantity |-> 0])
             /\ stock_movements' = stock_movements
     /\ (resp'.op = "createProduct" /\ resp'.status # 201)
          => /\ Len(products') - Len(products) = Len(stock') - Len(stock)
             /\ Len(stock') - Len(stock) \in {0, 1}
             /\ stock_movements' = stock_movements
     /\ resp'.op # "createProduct"
          => /\ Len(stock') = Len(stock)
             /\ Len(products') = Len(products)
             /\ \A i \in DOMAIN stock :
                   /\ stock'[i].product_id = stock[i].product_id
                   /\ stock'[i].variant_id = stock[i].variant_id
     /\ \A p \in DOMAIN products' :
           Cardinality({i \in DOMAIN stock' :
                          /\ stock'[i].product_id = p
                          /\ stock'[i].variant_id = NULL}) = 1
     /\ \A i \in DOMAIN stock' :
           /\ stock'[i].product_id \in DOMAIN products'
           /\ stock'[i].variant_id = NULL]_vars

\* a product was created, adjusted twice and deleted: its one StockLine is
\* still there with the quantity the adjustments left
C30_Witness ==
  /\ resp.op = "deleteProduct"
  /\ Len(products) = 1 /\ ~products[1].is_active
  /\ Len(stock) = 1
  /\ stock[1].quantity > 0
  /\ Len(stock_movements) >= 2

\* C31: a sale never sells more of a StockLine than is available. For every
\* successful createSale and every (product, variant) key of its lines, the
\* sum of the quantities of the lines with that key is at most the
\* StockLine's quantity before the sale, and the quantity after the sale is
\* the quantity before minus that sum, also when a product is on several lines.
C31_NoOversell ==
  [][(resp'.op = "createSale" /\ resp'.status = 201)
     => \A k \in DOMAIN resp'.data.items :
           LET p == resp'.data.items[k].product_id
               v == resp'.data.items[k].variant_id
               asked == LineQuantity(resp'.data.items, p, v)
           IN /\ asked <= StockQuantity(Db, p, v)
              /\ StockQuantity(DbNext, p, v) = StockQuantity(Db, p, v) - asked]_vars

(***************************************************************************)
(* Properties of the refund.                                               *)
(***************************************************************************)
\* the quantity the return movements referencing sale id credited to (p, v)
RECURSIVE Returned(_, _, _, _)
Returned(movements, id, p, v) ==
  IF movements = <<>> THEN 0
  ELSE (IF /\ Head(movements).movement_type = "return"
           /\ Head(movements).reference_id = id
           /\ Head(movements).product_id = p
           /\ Head(movements).variant_id = v
        THEN Head(movements).quantity_change ELSE 0)
       + Returned(Tail(movements), id, p, v)

\* the quantity the items of sale id sold of (p, v)
RECURSIVE Sold(_, _, _, _)
Sold(items, id, p, v) ==
  IF items = <<>> THEN 0
  ELSE (IF /\ Head(items).sale_id = id
           /\ Head(items).product_id = p
           /\ Head(items).variant_id = v
        THEN Head(items).quantity ELSE 0)
       + Sold(Tail(items), id, p, v)

\* C32: refunds never return more than was sold. For every sale and every
\* SaleItem of it, over any sequence of partial and full refunds, the quantity
\* credited back by the return movements referencing the sale for the item's
\* line is at most the quantity the sale sold of it.
C32_RefundAtMostSold ==
  \A i \in DOMAIN sale_items :
     Returned(stock_movements, sale_items[i].sale_id, sale_items[i].product_id,
              sale_items[i].variant_id)
       <= Sold(sale_items, sale_items[i].sale_id, sale_items[i].product_id,
               sale_items[i].variant_id)

\* C33: two concurrent full refunds of one completed sale credit the sold
\* quantities back at most once. When the transaction of a refund request
\* runs on a sale that another request has refunded since this one read it,
\* the request fails and changes neither the stock nor the ledger.
C33_ConcurrentRefundOnce ==
  [][\A r \in RequestIds :
       (/\ inflight[r].pc = "refund"
        /\ inflight'[r].pc = "idle"
        /\ sales[inflight[r].id].status = "refunded")
       => /\ resp'.status # 200
          /\ stock' = stock
          /\ stock_movements' = stock_movements]_vars

\* the products of a batch none of whose items is in successful
OnlyFailed(data) ==
  {data.failed[k].product_id : k \in DOMAIN data.failed}
    \ {data.successful[k].product_id : k \in DOMAIN data.successful}

\* C34: a bulkAdjust item reported in failed has no committed effect. For a
\* product all of whose items of the batch are in failed, the StockLine
\* quantity is unchanged, the batch wrote no StockMovement and created or
\* resolved no alert, wherever in the item the failure occurred; so no
\* quantity change is committed without its ledger row.
C34_FailedItemNoEffect ==
  [][(resp'.op = "bulkAdjust" /\ resp'.status = 200)
     => \A p \in OnlyFailed(resp'.data) :
           /\ \A i \in DOMAIN stock :
                 stock[i].product_id = p => stock'[i] = stock[i]
           /\ \A k \in Written : stock_movements'[k].product_id # p
           /\ \A j \in Inserted : low_stock_alerts'[j].product_id # p
           /\ \A j \in DOMAIN low_stock_alerts :
                 low_stock_alerts[j].product_id = p
                   => low_stock_alerts'[j] = low_stock_alerts[j]]_vars

(***************************************************************************)
(* bulkAdjust against single adjust.                                       *)
(***************************************************************************)
\* the tables after one POST /adjust of the item on the tables d: nothing
\* when the validator or a lookup rejects it, the committed writes otherwise
AdjustEffect(d, item) ==
  IF \/ item.quantity < 1
     \/ ~ActiveProduct(item.product_id)
     \/ ~HasStock(d, item.product_id, item.variant_id)
  THEN d
  ELSE AdjustWrites(d, item.product_id, item.variant_id, item.adjustment_type,
                    item.quantity,
                    StockQuantity(d, item.product_id, item.variant_id),
                    products[item.product_id].min_stock_level, "none")

\* single adjust applied to the items of a batch in list order
RECURSIVE SerialAdjust(_, _, _)
SerialAdjust(d, adjustments, i) ==
  IF i > Len(adjustments) THEN d
  ELSE SerialAdjust(AdjustEffect(d, adjustments[i]), adjustments, i + 1)

C36_AlertsTrackStock ==
  [][(/\ resp'.op \in {"adjust", "bulkAdjust", "createSale", "refund"}
      /\ resp'.status \in {200, 201})
     => \A k \in Written :
           LET p == stock_movements'[k].product_id
               v == stock_movements'[k].variant_id
           IN existingAlert(DbNext, p, v)
                <=> StockQuantity(DbNext, p, v) <= products[p].min_stock_level]_vars

(***************************************************************************)
(* Frame of the four operations.                                           *)
(***************************************************************************)
\* the (product, variant) keys of a sequence of request items
KeysOf(items) ==
  {<<items[k].product_id, items[k].variant_id>> : k \in DOMAIN items}

\* the keys the request answered by resp' names: the line of an adjust, the
\* items of a batch or of a sale, the targeted items of a refund; none when
\* the answer carries no request
NamedKeys ==
  CASE resp'.op = "adjust" ->
         {<<resp'.ref, v>> : v \in VariantIds}
    [] resp'.op = "bulkAdjust" /\ resp'.status = 200 ->
         KeysOf(resp'.data.adjustments)
    [] resp'.op = "createSale" ->
         KeysOf(resp'.data.items)
    [] resp'.op = "refund" /\ resp'.status = 200 ->
         LET targeted == ItemsToRefund(SaleItemIds(Db, resp'.ref, 1),
                                       resp'.data.partial_items)
         IN {<<sale_items[targeted[k]].product_id,
               sale_items[targeted[k]].variant_id>> : k \in DOMAIN targeted}
    [] OTHER -> {}

\* C37: frame. adjust, bulkAdjust, createSale and refund change only the
\* StockLines, movements and alerts of the keys named in the request (for
\* refund: of the targeted sale items); every other StockLine, every other
\* key's alerts, all Product rows, all existing SaleItem rows and the totals
\* of existing sales are left unchanged.
C37_Frame ==
  [][resp'.op \in {"adjust", "bulkAdjust", "createSale", "refund"}
     => /\ products' = products
        /\ Len(stock') = Len(stock)
        /\ \A i \in DOMAIN stock :
              <<stock[i].product_id, stock[i].variant_id>> \notin NamedKeys
                => stock'[i] = stock[i]
        /\ \A k \in Written :
              <<stock_movements'[k].product_id, stock_movements'[k].variant_id>>
                \in NamedKeys
        /\ \A j \in Inserted :
              <<low_stock_alerts'[j].product_id, low_stock_alerts'[j].variant_id>>
                \in NamedKeys
        /\ \A j \in DOMAIN low_stock_alerts :
              <<low_stock_alerts[j].product_id, low_stock_alerts[j].variant_id>>
                \notin NamedKeys
                => low_stock_alerts'[j] = low_stock_alerts[j]
        /\ \A i \in DOMAIN sale_items : sale_items'[i] = sale_items[i]
        /\ \A i \in DOMAIN sales :
              /\ sales'[i].sale_number = sales[i].sale_number
              /\ sales'[i].total_amount = sales[i].total_amount
              /\ sales'[i].tax_amount = sales[i].tax_amount
              /\ sales'[i].discount_amount = sales[i].discount_amount]_vars

\* a batch raised one product above its min-level and resolved its alert
\* while the other product's line is low with its alert still active
C37_Witness ==
  /\ resp.op = "bulkAdjust" /\ resp.status = 200
  /\ resp.data.successful # <<>>
  /\ \E i, j \in DOMAIN low_stock_alerts :
        /\ low_stock_alerts[i].product_id
             \in {resp.data.successful[k].product_id :
                    k \in DOMAIN resp.data.successful}
        /\ low_stock_alerts[i].alert_status = "resolved"
        /\ low_stock_alerts[j].product_id
             \notin {resp.data.adjustments[k].product_id :
                       k \in DOMAIN resp.data.adjustments}
        /\ low_stock_alerts[j].alert_status = "active"

(***************************************************************************)
(* Authorization (middleware/auth.js) and the users routes.                *)
(***************************************************************************)
Roles == {"admin", "cashier"}
\* the bodies of PUT /users/:id: role, is_active, both or neither
UserBodies ==
  {<<>>} \cup {[role |-> r] : r \in Roles}
         \cup {[is_active |-> b] : b \in BOOLEAN}
         \cup {[role |-> r, is_active |-> b] : r \in Roles, b \in BOOLEAN}
\* the status of next(): the request goes on to the handler
Next0 == 0

\* the middleware that trusts the role the token was signed with, at the
\* login of the seeded account
requireRole_Decoded(roles, id) ==
  IF SeedUsers[id].role \in roles THEN Next0 ELSE 403

\* requireRole(roles): SELECT * FROM users WHERE id = ? AND is_active = 1
\* with the id of the decoded token, 401 without a row, 403 when the row's
\* role is not one of roles
requireRole(roles, id) ==
  IF ~(id \in DOMAIN users /\ users[id].is_active) THEN 401
  ELSE IF users[id].role \notin roles THEN 403
  ELSE Next0

requireAdmin(id) == requireRole({"admin"}, id)
requireStaff(id) == requireRole({"admin", "cashier"}, id)

\* a route behind verifyToken and requireRole: the token of user id is
\* valid, the handler runs only when the middleware calls next()
Route(op, check, id, handler) ==
  /\ req_user' = id
  /\ IF check = Next0
     THEN handler
     ELSE /\ resp' = Response(op, check, "Unauthorized", NULL, NoData)
          /\ UNCHANGED <<products, tables, pre_stock, inflight, users,
                         categories>>

\* PUT /users/:id, for the columns role and is_active
UpdateUser(actor, id, body) ==
  /\ IF id \notin DOMAIN users
     THEN /\ resp' = Response("updateUser", 404, "NotFound", id, NoData)
          /\ UNCHANGED users
     ELSE IF actor = id /\ "is_active" \in DOMAIN body /\ ~body.is_active
     THEN /\ resp' = Response("updateUser", 400, "OwnAccount", id, NoData)
          /\ UNCHANGED users
     ELSE IF DOMAIN body = {}
     THEN /\ resp' = Response("updateUser", 400, "NoFields", id, NoData)
          /\ UNCHANGED users
     ELSE /\ users' = [users EXCEPT
                         ![id].role =
                            IF "role" \in DOMAIN body THEN body.role ELSE @,
                         ![id].is_active =
                            IF "is_active" \in DOMAIN body
                            THEN body.is_active ELSE @]
          /\ resp' = Response("updateUser", 200, "", id, NoData)
  /\ UNCHANGED <<products, tables, pre_stock, inflight, categories>>

(***************************************************************************)
(* AuthSpec: the stock and sale routes and PUT /users/:id, each request    *)
(* carrying the token of one of the accounts.                              *)
(***************************************************************************)
AuthNext ==
  \/ \E u \in DOMAIN users, id \in DOMAIN users, body \in UserBodies :
        Route("updateUser", requireAdmin(u), u, UpdateUser(u, id, body))
  \/ \E u \in DOMAIN users, item \in FaultItems(Created) :
        /\ Room(1)
        /\ Route("adjust", requireAdmin(u), u,
                 /\ Adjust(item.product_id, item.variant_id,
                           item.adjustment_type, item.quantity, "none")
                 /\ UNCHANGED <<users, categories>>)
        /\ StockCap
  \/ \E u \in DOMAIN users, item \in FaultItems(Created) :
        /\ Room(1)
        /\ Route("bulkAdjust", requireAdmin(u), u,
                 /\ BulkAdjust(<<item>>, NoFaults(<<item>>), FALSE)
                 /\ UNCHANGED <<users, categories>>)
        /\ StockCap
  \/ \E u \in DOMAIN users, line \in UnitLines(Created) :
        /\ Room(1)
        /\ Len(sales) < MaxSales
        /\ Route("createSale", requireStaff(u), u,
                 /\ CreateSale(<<line>>, 1, NoDiscount, NoTax, "none")
                 /\ UNCHANGED <<users, categories>>)
  \/ \E u \in DOMAIN users, id \in 1..MaxSales :
        /\ Room(Len(SaleItemIds(Db, id, 1)))
        /\ (id \in DOMAIN sales /\ sales[id].status = "completed")
              => sales[id].notes < MaxNotes
        /\ Route("refund", requireAdmin(u), u,
                 /\ Refund(id, {}, "none")
                 /\ UNCHANGED <<users, categories>>)
        /\ StockCap
  \/ \E u \in DOMAIN users, id \in 1..MaxMovements :
        Route("acknowledge", requireStaff(u), u,
              /\ Acknowledge(id)
              /\ UNCHANGED <<users, categories>>)

AuthSpec == InitStocked /\ [][AuthNext]_vars

\* the roles a route asks of requireRole
RequiredRoles(op) ==
  IF op \in {"adjust", "bulkAdjust", "refund"} THEN {"admin"}
  ELSE {"admin", "cashier"}

\* C38: authorization is re-checked against the current users row on every
\* request: a request carrying the token of a user who is now inactive, or
\* whose role is no longer one the route requires (adjust, bulkAdjust and
\* refund: admin; createSale and acknowledge: admin or cashier), is rejected
\* with 401 or 403 and changes nothing.
C38_AuthorizationRechecked ==
  [][(/\ resp'.op \in {"adjust", "bulkAdjust", "refund", "createSale",
                       "acknowledge"}
      /\ \/ ~users[req_user'].is_active
         \/ users[req_user'].role \notin RequiredRoles(resp'.op))
     => /\ resp'.status \in {401, 403}
        /\ UNCHANGED <<products, tables, users, categories>>]_vars

\* the seeded admin, deactivated since by another admin, is refused a refund
\* of a completed sale
C38_Witness ==
  /\ req_user = 1
  /\ SeedUsers[1].role = "admin"
  /\ ~users[1].is_active
  /\ resp.op = "refund" /\ resp.status = 401
  /\ \E i \in DOMAIN sales : sales[i].status = "completed"

(***************************************************************************)
(* Categories (routes/categories.js).                                      *)
(***************************************************************************)
MaxCategories == 3
MaxNames == 2
Names == 1..MaxNames
CategoryIds == 1..MaxCategories

\* parent_id of a request body. The validator isInt() accepts a JSON number
\* and a numeric string alike and leaves the value as it was sent; a body
\* without parent_id is the number 0 here (both are falsy).
ParentIds ==
  {[type |-> "number", value |-> n] : n \in 0..MaxCategories}
    \cup {[type |-> "string", value |-> n] : n \in CategoryIds}

\* if (parent_id): every non-empty string is truthy, a number when not 0
Truthy(parent_id) == parent_id.type = "string" \/ parent_id.value # 0

\* parent_id == id, with id the string of req.params: compared as numbers
LooseEquals(parent_id, id) == parent_id.value = id

\* descendants.includes(parent_id): the ids read from the database are
\* numbers and includes compares with SameValueZero, so that a string is
\* never found
Includes(descendants, parent_id) ==
  /\ parent_id.type = "number"
  /\ \E k \in DOMAIN descendants : descendants[k] = parent_id.value

\* parent_id || null, bound to the INTEGER column
StoredParent(parent_id) == IF Truthy(parent_id) THEN parent_id.value ELSE NULL

\* SELECT id FROM categories WHERE id = ? AND is_active = 1
ActiveCategory(cats, id) == id \in DOMAIN cats /\ cats[id].is_active

\* SELECT id FROM categories WHERE parent_id = ? AND is_active = 1, from row i
RECURSIVE Children(_, _, _)
Children(cats, parent, i) ==
  IF i > Len(cats) THEN <<>>
  ELSE (IF cats[i].is_active /\ cats[i].parent_id = parent THEN <<i>> ELSE <<>>)
         \o Children(cats, parent, i + 1)

\* the ids the search reaches from the set S in at most n rounds
RECURSIVE Below(_, _, _)
Below(cats, S, n) ==
  IF n = 0 THEN S
  ELSE Below(cats,
             S \cup {c \in DOMAIN cats :
                       cats[c].is_active /\ cats[c].parent_id \in S},
             n - 1)

\* the while loop of getDescendants ends: no category the search reaches
\* from categoryId is reached again from its own children
Terminates(cats, categoryId) ==
  \A x \in Below(cats, {categoryId}, Len(cats)) :
     LET children == {c \in DOMAIN cats :
                        cats[c].is_active /\ cats[c].parent_id = x}
     IN children = {} \/ x \notin Below(cats, children, Len(cats))

\* getDescendants: the loop over the queue
RECURSIVE Search(_, _, _)
Search(cats, queue, descendants) ==
  IF queue = <<>> THEN descendants
  ELSE LET children == Children(cats, Head(queue), 1)
       IN Search(cats, Tail(queue) \o children, descendants \o children)

getDescendants(cats, categoryId) == Search(cats, <<categoryId>>, <<>>)

\* the duplicate-name query of POST / and PUT /:id (id = NULL for POST)
DuplicateName(cats, name, parent_id, id) ==
  \E c \in DOMAIN cats :
     /\ cats[c].name = name
     /\ cats[c].parent_id = StoredParent(parent_id)
     /\ c # id
     /\ cats[c].is_active

\* SELECT COUNT(*) FROM products WHERE category_id = ? AND is_active = 1;
\* the product rows of this model are created without a category
productCount(id) ==
  Cardinality({p \in DOMAIN products :
                 /\ products[p].is_active
                 /\ "category_id" \in DOMAIN products[p]
                 /\ products[p].category_id = id})

\* POST /categories
CreateCategory(name, parent_id) ==
  /\ IF Truthy(parent_id) /\ ~ActiveCategory(categories, parent_id.value)
     THEN /\ resp' = Response("createCategory", 400, "ParentNotFound", NULL, NoData)
          /\ UNCHANGED categories
     ELSE IF DuplicateName(categories, name, parent_id, NULL)
     THEN /\ resp' = Response("createCategory", 400, "Duplicate", NULL, NoData)
          /\ UNCHANGED categories
     ELSE /\ categories' = Append(categories,
                                  [name |-> name,
                                   parent_id |-> StoredParent(parent_id),
                                   is_active |-> TRUE])
          /\ resp' = Response("createCategory", 201, "", Len(categories) + 1,
                              NoData)
  /\ UNCHANGED <<products, tables, pre_stock, inflight, users, req_user>>

\* PUT /categories/:id. With a circular hierarchy below id the call of
\* getDescendants does not return and the request is never answered.
UpdateCategory(id, name, parent_id) ==
  /\ IF ~ActiveCategory(categories, id)
     THEN /\ resp' = Response("updateCategory", 404, "NotFound", id, NoData)
          /\ UNCHANGED categories
     ELSE IF Truthy(parent_id) /\ LooseEquals(parent_id, id)
     THEN /\ resp' = Response("updateCategory", 400, "OwnParent", id, NoData)
          /\ UNCHANGED categories
     ELSE IF Truthy(parent_id) /\ ~ActiveCategory(categories, parent_id.value)
     THEN /\ resp' = Response("updateCategory", 400, "ParentNotFound", id, NoData)
          /\ UNCHANGED categories
     ELSE /\ Truthy(parent_id) => Terminates(categories, id)
          /\ IF /\ Truthy(parent_id)
                /\ Includes(getDescendants(categories, id), parent_id)
             THEN /\ resp' = Response("updateCategory", 400, "Circular", id,
                                      NoData)
                  /\ UNCHANGED categories
             ELSE IF DuplicateName(categories, name, parent_id, id)
             THEN /\ resp' = Response("updateCategory", 400, "Duplicate", id,
                                      NoData)
                  /\ UNCHANGED categories
             ELSE /\ categories' =
                       [categories EXCEPT
                          ![id].name = name,
                          ![id].parent_id = StoredParent(parent_id)]
                  /\ resp' = Response("updateCategory", 200, "", id, NoData)
  /\ UNCHANGED <<products, tables, pre_stock, inflight, users, req_user>>

\* DELETE /categories/:id
DeleteCategory(id) ==
  /\ IF ~ActiveCategory(categories, id)
     THEN /\ resp' = Response("deleteCategory", 404, "NotFound", id, NoData)
          /\ UNCHANGED categories
     ELSE IF productCount(id) > 0
     THEN /\ resp' = Response("deleteCategory", 400, "HasProducts", id, NoData)
          /\ UNCHANGED categories
     ELSE IF Children(categories, id, 1) # <<>>
     THEN /\ resp' = Response("deleteCategory", 400, "HasSubcategories", id,
                              NoData)
          /\ UNCHANGED categories
     ELSE /\ categories' = [categories EXCEPT ![id].is_active = FALSE]
          /\ resp' = Response("deleteCategory", 200, "", id, NoData)
  /\ UNCHANGED <<products, tables, pre_stock, inflight, users, req_user>>

(***************************************************************************)
(* CategorySpec: category create, update and delete from the empty table.  *)
(***************************************************************************)
CategoryNext ==
  \/ \E name \in Names, parent_id \in ParentIds :
        Len(categories) < MaxCategories /\ CreateCategory(name, parent_id)
  \/ \E id \in CategoryIds, name \in Names, parent_id \in ParentIds :
        UpdateCategory(id, name, parent_id)
  \/ \E id \in CategoryIds : DeleteCategory(id)

CategorySpec == Init /\ [][CategoryNext]_vars

\* the categories reached from c by following parent_id at most n times
RECURSIVE Above(_, _, _)
Above(cats, c, n) ==
  IF n = 0 \/ c \notin DOMAIN cats \/ cats[c].parent_id = NULL THEN {}
  ELSE {cats[c].parent_id} \cup Above(cats, cats[c].parent_id, n - 1)

\* C39: the category hierarchy stays acyclic: after any sequence of category
\* create, update and delete requests, following parent_id from an active
\* category never returns to that category, and the breadth-first search of
\* getDescendants terminates from every category.
C39_Acyclic ==
  \A c \in DOMAIN categories :
     categories[c].is_active
       => /\ c \notin Above(categories, c, Len(categories))
          /\ Terminates(categories, c)

====
